---- MODULE Spec2Model ----
(***************************************************************************)
(* Model of the Markdown -> Atlassian Document Format converter textToADF  *)
(* of slack-rca-workflow/src/jira-service.js.  Strings are sequences of    *)
(* one-character strings; the regular expressions of the source are        *)
(* operators over such sequences.  Line indices are 0-based as in the      *)
(* source's loop.                                                          *)
(***************************************************************************)
EXTENDS Integers, Sequences, FiniteSets, TLC

\* ------------------------------------------------------------------ bounds

\* Largest number of lines of an input text (specification Spec).
MaxLines == 4

\* Largest number of lines of an input text when conversions are repeated
\* (specification SpecRepeat).
MaxRepeatLines == 2

\* Largest length of a string given to parseInlineFormatting alone
\* (specification SpecInline).
MaxInlineLen == 9

\* Largest number of calls of processEventAsync followed to their end
\* (specification SpecHandler).
MaxTasks == 1

\* Largest timestamp of the events delivered in a long run of the Lambda
\* function, and largest number of calls of processEventAsync recorded
\* (specification SpecCache).
MaxCacheEvents == 1002
MaxCacheTasks == 2

\* The number of deliveries followed while others are in flight.
MaxDeliveries == 3

\* ------------------------------------------------------------- JS values

\* The backtick character (the lexer of TLA+ reserves the glyph itself).
Backtick == "BACKTICK"

LF == "\n"
CR == "\r"

\* The value of a capture group that did not take part in a match, and of
\* an array element read past the end.
Undefined == <<"undefined">>

\* The string 'plain'.
Plain == <<"p", "l", "a", "i", "n">>

\* x || d on strings: the empty string and undefined are falsy.
OrElse(x, d) == IF x = Undefined \/ x = <<>> THEN d ELSE x

\* !text for a string.
Falsy(t) == t = Undefined \/ t = <<>>

\* \w, \d and \s of the regular expressions.
WordChars == {"a", "b", "j", "s", "x", "T", "1", "2", "_"}
Digits == {"1", "2"}
WhitespaceChars == {" ", "\t", CR}

\* s.substring(from, to) with 0-based from (inclusive) and to (exclusive).
Substring(s, from, to) == SubSeq(s, from + 1, to)

\* The longest prefix of s whose characters are all in set cs.
RECURSIVE TakeWhile(_, _)
TakeWhile(s, cs) ==
  IF s = <<>> \/ Head(s) \notin cs THEN <<>>
  ELSE <<Head(s)>> \o TakeWhile(Tail(s), cs)

\* s without its first n characters.
Drop(s, n) == SubSeq(s, n + 1, Len(s))

Range(s) == {s[k] : k \in 1..Len(s)}

AllIn(s, cs) == \A k \in 1..Len(s) : s[k] \in cs

\* s.trim()
RECURSIVE TrimRight(_)
TrimRight(s) ==
  IF s = <<>> \/ s[Len(s)] \notin WhitespaceChars THEN s
  ELSE TrimRight(SubSeq(s, 1, Len(s) - 1))

Trim(s) == TrimRight(Drop(s, Len(TakeWhile(s, WhitespaceChars))))

\* ls.join(sep)
RECURSIVE JoinWith(_, _)
JoinWith(ls, sep) ==
  IF ls = <<>> THEN <<>>
  ELSE IF Len(ls) = 1 THEN ls[1]
  ELSE ls[1] \o sep \o JoinWith(Tail(ls), sep)

\* String(text).split(/\r?\n/): every LF ends a line, and a CR directly
\* before it belongs to the separator.
StripCR(cur) ==
  IF cur /= <<>> /\ cur[Len(cur)] = CR THEN SubSeq(cur, 1, Len(cur) - 1) ELSE cur

RECURSIVE SplitFrom(_, _, _)
SplitFrom(t, k, cur) ==
  IF k > Len(t) THEN <<cur>>
  ELSE IF t[k] = LF THEN <<StripCR(cur)>> \o SplitFrom(t, k + 1, <<>>)
  ELSE SplitFrom(t, k + 1, Append(cur, t[k]))

SplitLines(t) == SplitFrom(t, 1, <<>>)

\* lines[i] of a JS array: undefined past the end.
At(ls, k) == IF k >= 0 /\ k < Len(ls) THEN ls[k + 1] ELSE Undefined

\* ------------------------------------------------- regular expressions

\* The result of a failed String.prototype.match.
NoMatch == [matched |-> FALSE]

\* The dot matches any character but a line terminator.
LineTerminators == {LF, CR}

\* line.match of the fence expression, /^[3 backticks](\w*)?\s*$/: g1 is the language word, undefined when
\* the optional group matched nothing.
CodeBlockMatch(line) ==
  IF Len(line) >= 3 /\ SubSeq(line, 1, 3) = <<Backtick, Backtick, Backtick>>
  THEN LET rest == Drop(line, 3)
           word == TakeWhile(rest, WordChars)
       IN IF AllIn(Drop(rest, Len(word)), WhitespaceChars)
          THEN [matched |-> TRUE, g1 |-> IF word = <<>> THEN Undefined ELSE word]
          ELSE NoMatch
  ELSE NoMatch

\* The part of a line after a marker of n characters and the run of
\* whitespace (\s+) that has to follow it; NoMatch without whitespace.
AfterMarker(line, n) ==
  LET rest == Drop(line, n)
      ws == TakeWhile(rest, WhitespaceChars)
      tail == Drop(rest, Len(ws))
  IN IF Len(ws) >= 1 /\ AllIn(tail, {c \in Range(tail) : c \notin LineTerminators})
     THEN [matched |-> TRUE, rest |-> tail]
     ELSE NoMatch

\* The heading expression with any number of hashes, /^(#+)\s+(.*)$/.
HeadingMatchAnyLevel(line) ==
  LET hashes == TakeWhile(line, {"#"})
      m == AfterMarker(line, Len(hashes))
  IN IF Len(hashes) >= 1 /\ m.matched
     THEN [matched |-> TRUE, g1 |-> hashes, g2 |-> m.rest]
     ELSE NoMatch

\* line.match(/^(#{2,3})\s+(.*)$/): g1 the hashes, g2 the remainder.
HeadingMatch(line) ==
  LET hashes == TakeWhile(line, {"#"})
      m == AfterMarker(line, Len(hashes))
  IN IF Len(hashes) \in {2, 3} /\ m.matched
     THEN [matched |-> TRUE, g1 |-> hashes, g2 |-> m.rest]
     ELSE NoMatch

\* A bullet expression whose whitespace after the dash is optional.
BulletMatchLoose(line) ==
  IF line /= <<>> /\ line[1] = "-"
  THEN LET rest == Drop(line, 1)
       IN [matched |-> TRUE,
           g1 |-> Drop(rest, Len(TakeWhile(rest, WhitespaceChars)))]
  ELSE NoMatch

\* line.match(/^-\s+(.*)$/)
BulletMatch(line) ==
  LET m == AfterMarker(line, 1)
  IN IF line /= <<>> /\ line[1] = "-" /\ m.matched
     THEN [matched |-> TRUE, g1 |-> m.rest]
     ELSE NoMatch

\* line.match(/^\d+\.\s+(.*)$/)
NumberedMatch(line) ==
  LET digits == TakeWhile(line, Digits)
      m == AfterMarker(line, Len(digits) + 1)
  IN IF Len(digits) >= 1 /\ Len(line) > Len(digits)
        /\ line[Len(digits) + 1] = "." /\ m.matched
     THEN [matched |-> TRUE, g1 |-> m.rest]
     ELSE NoMatch

\* line.match(/^-{3,}$/)
RuleMatch(line) == Len(line) >= 3 /\ AllIn(line, {"-"})

\* line.trim().length === 0
IsBlank(line) == Len(Trim(line)) = 0

\* ----------------------------------------------------------- ADF nodes

TextNode(t) == [type |-> "text", text |-> t]

MarkedNode(t, mark) == [type |-> "text", text |-> t, marks |-> <<[type |-> mark]>>]

Paragraph(inline) == [type |-> "paragraph", content |-> inline]

ListItem(item) == [type |-> "listItem", content |-> <<Paragraph(item)>>]

ListNode(kind, items) ==
  [type |-> kind, content |-> [k \in 1..Len(items) |-> ListItem(items[k])]]

CodeBlockNode(lang, codeLines) ==
  [type |-> "codeBlock",
   attrs |-> [language |-> OrElse(lang, Plain)],
   content |-> <<TextNode(JoinWith(codeLines, <<LF>>))>>]

HeadingNode(level, t) ==
  [type |-> "heading", attrs |-> [level |-> level], content |-> <<TextNode(Trim(t))>>]

RuleNode == [type |-> "rule"]

Doc(blocks) == [type |-> "doc", version |-> 1, content |-> blocks]

\* ------------------------------------------------- parseInlineFormatting

\* The 0-based position of the first character of s at or after 0-based
\* position p that is in set stop; Len(s) + 1 when there is none.
RECURSIVE RunEnd(_, _, _)
RunEnd(s, p, stop) ==
  IF p >= Len(s) THEN Len(s) + 1
  ELSE IF s[p + 1] \in stop THEN p
  ELSE RunEnd(s, p + 1, stop)

\* A matcher that takes a backtick with no closing backtick as the start
\* of a code span running to the end of the string.
InlineMatchAtUnclosed(s, p) ==
  LET boldEnd == RunEnd(s, p + 2, {"*"})
      codeEnd == RunEnd(s, p + 1, {Backtick})
      codeStop == IF codeEnd > Len(s) THEN Len(s) ELSE codeEnd
  IN IF /\ p + 2 <= Len(s)
        /\ s[p + 1] = "*" /\ s[p + 2] = "*"
        /\ boldEnd > p + 2 /\ boldEnd + 2 <= Len(s)
        /\ s[boldEnd + 1] = "*" /\ s[boldEnd + 2] = "*"
     THEN [matched |-> TRUE, index |-> p, lastIndex |-> boldEnd + 2,
           g2 |-> Substring(s, p + 2, boldEnd), g4 |-> Undefined]
     ELSE IF /\ p + 2 <= Len(s)
             /\ s[p + 1] = Backtick
             /\ codeStop > p + 1
     THEN [matched |-> TRUE, index |-> p,
           lastIndex |-> IF codeStop < Len(s) THEN codeStop + 1 ELSE Len(s),
           g2 |-> Undefined, g4 |-> Substring(s, p + 1, codeStop)]
     ELSE NoMatch

\* A match of /(\*\*([^*]+?)\*\*)|([bt]([^bt]+?)[bt])/ (bt the backtick)
\* that starts exactly at 0-based position p.
InlineMatchAt(s, p) ==
  LET boldEnd == RunEnd(s, p + 2, {"*"})
      codeEnd == RunEnd(s, p + 1, {Backtick})
  IN IF /\ p + 2 <= Len(s)
        /\ s[p + 1] = "*" /\ s[p + 2] = "*"
        /\ boldEnd > p + 2 /\ boldEnd + 2 <= Len(s)
        /\ s[boldEnd + 1] = "*" /\ s[boldEnd + 2] = "*"
     THEN [matched |-> TRUE, index |-> p, lastIndex |-> boldEnd + 2,
           g2 |-> Substring(s, p + 2, boldEnd), g4 |-> Undefined]
     ELSE IF /\ p + 1 <= Len(s)
             /\ s[p + 1] = Backtick
             /\ codeEnd > p + 1 /\ codeEnd + 1 <= Len(s)
     THEN [matched |-> TRUE, index |-> p, lastIndex |-> codeEnd + 1,
           g2 |-> Undefined, g4 |-> Substring(s, p + 1, codeEnd)]
     ELSE NoMatch

\* A search that prefers a bold match anywhere in the rest of the string
\* to a code match that starts earlier.
RegexExecBoldFirst(s, from) ==
  LET all == {p \in from..(Len(s) - 1) : InlineMatchAt(s, p).matched}
      bolds == {p \in all : ~Falsy(InlineMatchAt(s, p).g2)}
      first(S) == CHOOSE p \in S : \A q \in S : p <= q
  IN IF bolds # {} THEN InlineMatchAt(s, first(bolds))
     ELSE IF all # {} THEN InlineMatchAt(s, first(all))
     ELSE NoMatch

\* regex.exec(remaining) with regex.lastIndex = from: the leftmost match
\* at or after from.
RECURSIVE RegexExec(_, _)
RegexExec(s, from) ==
  IF from >= Len(s) THEN NoMatch
  ELSE IF InlineMatchAt(s, from).matched THEN InlineMatchAt(s, from)
  ELSE RegexExec(s, from + 1)

\* A match is added without the text between the last match and it.
InlinePushNoBefore(remaining, lastIndex, res, m) ==
  IF ~Falsy(m.g2) THEN Append(res, MarkedNode(m.g2, "strong"))
  ELSE IF ~Falsy(m.g4) THEN Append(res, MarkedNode(m.g4, "code"))
  ELSE res

\* Lines 68-89: what one match m adds to the result res, the text before
\* it (from lastIndex on) first.
InlinePush(remaining, lastIndex, res, m) ==
  LET before == IF m.index > lastIndex
                THEN Append(res, TextNode(Substring(remaining, lastIndex, m.index)))
                ELSE res
  IN IF ~Falsy(m.g2) THEN Append(before, MarkedNode(m.g2, "strong"))
     ELSE IF ~Falsy(m.g4) THEN Append(before, MarkedNode(m.g4, "code"))
     ELSE before

\* The while loop of parseInlineFormatting.
RECURSIVE InlineLoop(_, _, _)
InlineLoop(remaining, lastIndex, res) ==
  LET m == RegexExec(remaining, lastIndex)
  IN IF ~m.matched THEN [result |-> res, lastIndex |-> lastIndex]
     ELSE InlineLoop(remaining, m.lastIndex,
                     InlinePush(remaining, lastIndex, res, m))

\* The returned array without the text that follows the last match.
InlineReturnNoTail(t, lastIndex, res) ==
  IF Len(res) > 0 THEN res ELSE <<TextNode(t)>>

\* Lines 94-101: the text after the last match is added, and a result
\* still empty is replaced by one text node.
InlineReturn(t, lastIndex, res) ==
  LET all == IF lastIndex < Len(t)
             THEN Append(res, TextNode(Substring(t, lastIndex, Len(t))))
             ELSE res
  IN IF Len(all) > 0 THEN all ELSE <<TextNode(t)>>

ParseInlineFormatting(t) ==
  LET r == InlineLoop(t, 0, <<>>)
  IN InlineReturn(t, r.lastIndex, r.result)

\* ------------------------------------------------------------- state

VARIABLES
  text,              \* the argument of the call
  pc,                \* "call", "scan", "done" or "threw"; "inline" and
                     \* "returned" when parseInlineFormatting runs alone
  lines,             \* String(text).split(/\r?\n/)
  i,                 \* the loop index
  content,           \* the output block sequence
  inCodeBlock, codeBlockLang, codeBlockContent,
  inBulletList, bulletItems,
  inNumberedList, numberedItems,
  result,            \* the returned document
  origin,            \* history: origin[k] is the index of the first line
                     \* that contributed to content[k]
  codeFrom,          \* history: index of the fence that opened the code block
  bulletFrom,        \* history: index of the first buffered bullet line
  numberedFrom,      \* history: index of the first buffered numbered line
  earlier,           \* history: <<>> or the text and result of the first
                     \* completed call
  processedEvents,   \* lambda.mjs: the keys of the Set, in insertion order
  tasks,             \* lambda.mjs: the calls of processEventAsync so far
  lastCall,          \* lambda.mjs: what the last call of handler saw and
                     \* returned
  insertedAt,        \* history: insertedAt[k] is the number of the add()
                     \* that put processedEvents[k] in the Set
  invocations,       \* lambda.mjs: the deliveries the runtime has received,
                     \* each with the response of handler once it has run
  rca                \* rca-service.js: the locals of the call of performRCA
                     \* and where it stands

vars == <<text, pc, lines, i, content, inCodeBlock, codeBlockLang,
          codeBlockContent, inBulletList, bulletItems, inNumberedList,
          numberedItems, result, origin, codeFrom, bulletFrom, numberedFrom,
          earlier, processedEvents, tasks, lastCall, insertedAt,
          invocations, rca>>

\* The state of the converter and the state of the Lambda function.
adfVars == <<text, pc, lines, i, content, inCodeBlock, codeBlockLang,
             codeBlockContent, inBulletList, bulletItems, inNumberedList,
             numberedItems, result, origin, codeFrom, bulletFrom,
             numberedFrom, earlier>>

lambdaVars == <<processedEvents, tasks, lastCall, insertedAt, invocations>>

rcaVars == <<rca>>

\* The Lambda function as loaded: an empty Set, nothing called yet.
LambdaLoaded ==
  /\ processedEvents = <<>>
  /\ tasks = <<>>
  /\ lastCall = <<>>
  /\ insertedAt = <<>>
  /\ invocations = <<>>

\* rca-service.js as loaded: performRCA has not been called.
RcaLoaded ==
  rca = [pc |-> "idle", iteration |-> 0, rcaResult |-> <<>>,
         messages |-> <<>>, toolResults |-> <<>>, call |-> 0,
         requests |-> 0, executed |-> <<>>, others |-> 0,
         thrown |-> <<>>, returned |-> <<>>]

\* The accumulators of one activation, as a record.
Locals ==
  [content |-> content, origin |-> origin,
   inCodeBlock |-> inCodeBlock, codeBlockLang |-> codeBlockLang,
   codeBlockContent |-> codeBlockContent, codeFrom |-> codeFrom,
   inBulletList |-> inBulletList, bulletItems |-> bulletItems,
   bulletFrom |-> bulletFrom,
   inNumberedList |-> inNumberedList, numberedItems |-> numberedItems,
   numberedFrom |-> numberedFrom]

\* Only the output sequence is declared in the function; the buffers and
\* flags live outside it and keep their values from call to call.
StaleLocals == [Locals EXCEPT !.content = <<>>, !.origin = <<>>]

\* The declarations at the top of textToADF.
FreshLocals ==
  [content |-> <<>>, origin |-> <<>>,
   inCodeBlock |-> FALSE, codeBlockLang |-> <<>>,
   codeBlockContent |-> <<>>, codeFrom |-> 0,
   inBulletList |-> FALSE, bulletItems |-> <<>>, bulletFrom |-> 0,
   inNumberedList |-> FALSE, numberedItems |-> <<>>, numberedFrom |-> 0]

\* The accumulators after the step are those of record s.
SetLocals(s) ==
  /\ content' = s.content
  /\ origin' = s.origin
  /\ inCodeBlock' = s.inCodeBlock
  /\ codeBlockLang' = s.codeBlockLang
  /\ codeBlockContent' = s.codeBlockContent
  /\ codeFrom' = s.codeFrom
  /\ inBulletList' = s.inBulletList
  /\ bulletItems' = s.bulletItems
  /\ bulletFrom' = s.bulletFrom
  /\ inNumberedList' = s.inNumberedList
  /\ numberedItems' = s.numberedItems
  /\ numberedFrom' = s.numberedFrom

\* The block is put in front of the sequence (unshift for push).
PushFront(s, block, from) ==
  [s EXCEPT !.content = <<block>> \o @, !.origin = <<from>> \o @]

\* content.push(block), the block coming from line index from.
Push(s, block, from) ==
  [s EXCEPT !.content = Append(@, block), !.origin = Append(@, from)]

\* The bullet list is emitted without the test for an empty buffer.
FlushBulletListAlways(s) ==
  [Push(s, ListNode("bulletList", s.bulletItems), s.bulletFrom)
     EXCEPT !.bulletItems = <<>>, !.inBulletList = FALSE]

\* The bullet list is emitted and its buffer is not emptied.
FlushBulletListKeep(s) ==
  IF Len(s.bulletItems) > 0
  THEN [Push(s, ListNode("bulletList", s.bulletItems), s.bulletFrom)
          EXCEPT !.inBulletList = FALSE]
  ELSE s

FlushBulletList(s) ==
  IF Len(s.bulletItems) > 0
  THEN [Push(s, ListNode("bulletList", s.bulletItems), s.bulletFrom)
          EXCEPT !.bulletItems = <<>>, !.inBulletList = FALSE]
  ELSE s

FlushNumberedList(s) ==
  IF Len(s.numberedItems) > 0
  THEN [Push(s, ListNode("orderedList", s.numberedItems), s.numberedFrom)
          EXCEPT !.numberedItems = <<>>, !.inNumberedList = FALSE]
  ELSE s

FlushLists(s) == FlushNumberedList(FlushBulletList(s))

\* ------------------------------------------------------ the loop body

\* The language is reset before the code block is pushed.
CloseCodeBlockLangLost(s) ==
  [Push(s, CodeBlockNode(<<>>, s.codeBlockContent), s.codeFrom)
     EXCEPT !.codeBlockContent = <<>>, !.inCodeBlock = FALSE, !.codeBlockLang = <<>>]

\* Lines 113-120: a fence line while a code block is open.
CloseCodeBlock(s) ==
  [Push(s, CodeBlockNode(s.codeBlockLang, s.codeBlockContent), s.codeFrom)
     EXCEPT !.codeBlockContent = <<>>, !.inCodeBlock = FALSE, !.codeBlockLang = <<>>]

\* A code block is opened and an open list stays in its buffer.
OpenCodeBlockNoFlush(s, m, idx) ==
  [s EXCEPT !.inCodeBlock = TRUE,
            !.codeBlockLang = OrElse(m.g1, Plain),
            !.codeFrom = idx]

\* Lines 123-126: a fence line while no code block is open.
OpenCodeBlock(s, m, idx) ==
  [FlushLists(s) EXCEPT !.inCodeBlock = TRUE,
                        !.codeBlockLang = OrElse(m.g1, Plain),
                        !.codeFrom = idx]

\* The line is trimmed before it is buffered.
BufferCodeLineTrimmed(s, line) ==
  [s EXCEPT !.codeBlockContent = Append(@, Trim(line))]

\* Line 132.
BufferCodeLine(s, line) == [s EXCEPT !.codeBlockContent = Append(@, line)]

\* A heading whose remainder goes through the inline scanner.
EmitHeadingInline(s, m, idx) ==
  Push(FlushLists(s),
       [type |-> "heading", attrs |-> [level |-> Len(m.g1)],
        content |-> ParseInlineFormatting(Trim(m.g2))],
       idx)

\* Lines 140-148.
EmitHeading(s, m, idx) == Push(FlushLists(s), HeadingNode(Len(m.g1), m.g2), idx)

\* A bullet line that leaves an open numbered list in its buffer.
AddBulletNoFlush(s, m, idx) ==
  [s EXCEPT !.inBulletList = TRUE,
            !.bulletItems = Append(@, ParseInlineFormatting(m.g1)),
            !.bulletFrom = IF Len(s.bulletItems) = 0 THEN idx ELSE @]

\* Lines 155-157.
AddBullet(s, m, idx) ==
  LET f == IF s.inNumberedList THEN FlushNumberedList(s) ELSE s
  IN [f EXCEPT !.inBulletList = TRUE,
               !.bulletItems = Append(@, ParseInlineFormatting(m.g1)),
               !.bulletFrom = IF Len(f.bulletItems) = 0 THEN idx ELSE @]

\* A numbered line that leaves an open bullet list in its buffer.
AddNumberedNoFlush(s, m, idx) ==
  [s EXCEPT !.inNumberedList = TRUE,
            !.numberedItems = Append(@, ParseInlineFormatting(m.g1)),
            !.numberedFrom = IF Len(s.numberedItems) = 0 THEN idx ELSE @]

\* Lines 164-166.
AddNumbered(s, m, idx) ==
  LET f == IF s.inBulletList THEN FlushBulletList(s) ELSE s
  IN [f EXCEPT !.inNumberedList = TRUE,
               !.numberedItems = Append(@, ParseInlineFormatting(m.g1)),
               !.numberedFrom = IF Len(f.numberedItems) = 0 THEN idx ELSE @]

\* Lines 172-174.
EmitRule(s, idx) == Push(FlushLists(s), RuleNode, idx)

\* A blank line that leaves an open list in its buffer.
BlankLineKeepsList(s) == s

\* Lines 181-182.
BlankLine(s) ==
  LET a == IF s.inBulletList THEN FlushBulletList(s) ELSE s
  IN IF a.inNumberedList THEN FlushNumberedList(a) ELSE a

\* A paragraph line that is added to a paragraph just before it.
EmitParagraphMerged(s, line, idx) ==
  LET f == FlushLists(s)
      n == Len(f.content)
  IN IF n > 0 /\ f.content[n].type = "paragraph"
     THEN [f EXCEPT !.content[n].content = @ \o ParseInlineFormatting(line)]
     ELSE Push(f, Paragraph(ParseInlineFormatting(line)), idx)

\* A paragraph line that loses the white space around it.
EmitParagraphTrimmed(s, line, idx) ==
  Push(FlushLists(s), Paragraph(ParseInlineFormatting(Trim(line))), idx)

\* Lines 188-191.
EmitParagraph(s, line, idx) ==
  Push(FlushLists(s), Paragraph(ParseInlineFormatting(line)), idx)

\* One iteration of the for loop on line, the line of index idx: the
\* first test that succeeds decides, as the continue statements do.
LoopBody(s, line, idx) ==
  IF CodeBlockMatch(line).matched
  THEN IF s.inCodeBlock THEN CloseCodeBlock(s)
       ELSE OpenCodeBlock(s, CodeBlockMatch(line), idx)
  ELSE IF s.inCodeBlock THEN BufferCodeLine(s, line)
  ELSE IF HeadingMatch(line).matched THEN EmitHeading(s, HeadingMatch(line), idx)
  ELSE IF BulletMatch(line).matched THEN AddBullet(s, BulletMatch(line), idx)
  ELSE IF NumberedMatch(line).matched THEN AddNumbered(s, NumberedMatch(line), idx)
  ELSE IF RuleMatch(line) THEN EmitRule(s, idx)
  ELSE IF IsBlank(line) THEN BlankLine(s)
  ELSE EmitParagraph(s, line, idx)

\* What follows the loop, without the closing of an open code block.
AfterLoopListsOnly(s) == FlushLists(s)

\* What follows the loop, without the flushing of the lists.
AfterLoopNoFlush(s) ==
  IF s.inCodeBlock /\ Len(s.codeBlockContent) > 0
  THEN Push(s, CodeBlockNode(s.codeBlockLang, s.codeBlockContent), s.codeFrom)
  ELSE s

\* Lines 195-205: what follows the loop.
AfterLoop(s) ==
  FlushLists(IF s.inCodeBlock /\ Len(s.codeBlockContent) > 0
             THEN Push(s, CodeBlockNode(s.codeBlockLang, s.codeBlockContent), s.codeFrom)
             ELSE s)

\* The loop condition with an off-by-one end.
LoopCondInclusive(k, n) == k <= n

\* The condition of the for loop.
LoopCond(k, n) == k < n

\* ------------------------------------------------------------ actions

\* Line 16: the early return for a falsy argument.
EarlyReturn ==
  /\ pc = "call"
  /\ Falsy(text)
  /\ result' = Doc(<<>>)
  /\ pc' = "done"
  /\ UNCHANGED <<text, lines, i, content, inCodeBlock, codeBlockLang,
                 codeBlockContent, inBulletList, bulletItems, inNumberedList,
                 numberedItems, origin, codeFrom, bulletFrom, numberedFrom,
                 earlier>>
  /\ UNCHANGED <<lambdaVars, rcaVars>>

\* Lines 18-27: split the text and declare the accumulators.
Enter ==
  /\ pc = "call"
  /\ ~Falsy(text)
  /\ lines' = SplitLines(text)
  /\ i' = 0
  /\ SetLocals(FreshLocals)
  /\ pc' = "scan"
  /\ UNCHANGED <<text, result, earlier>>
  /\ UNCHANGED <<lambdaVars, rcaVars>>

\* Lines 104-192: one iteration of the loop.  Reading a line past the end
\* of the array gives undefined, on which .match throws.
ProcessLine ==
  /\ pc = "scan"
  /\ LoopCond(i, Len(lines))
  /\ IF At(lines, i) = Undefined
     THEN /\ pc' = "threw"
          /\ UNCHANGED <<i, content, inCodeBlock, codeBlockLang,
                         codeBlockContent, inBulletList, bulletItems,
                         inNumberedList, numberedItems, origin, codeFrom,
                         bulletFrom, numberedFrom>>
     ELSE /\ SetLocals(LoopBody(Locals, At(lines, i), i))
          /\ i' = i + 1
          /\ pc' = pc
  /\ UNCHANGED <<text, lines, result, earlier>>
  /\ UNCHANGED <<lambdaVars, rcaVars>>

\* Lines 194-207: flush what is still open and return the document.
Finish ==
  /\ pc = "scan"
  /\ ~LoopCond(i, Len(lines))
  /\ SetLocals(AfterLoop(Locals))
  /\ result' = Doc(AfterLoop(Locals).content)
  /\ pc' = "done"
  /\ UNCHANGED <<text, lines, i, earlier>>
  /\ UNCHANGED <<lambdaVars, rcaVars>>

\* parseInlineFormatting on its own, on the string text: i is its
\* lastIndex, content the array it builds, result the array it returns.

\* Lines 66-91: one iteration of the while loop, on a match.
InlineIterate ==
  /\ pc = "inline"
  /\ RegexExec(text, i).matched
  /\ content' = InlinePush(text, i, content, RegexExec(text, i))
  /\ i' = RegexExec(text, i).lastIndex
  /\ UNCHANGED <<text, pc, lines, inCodeBlock, codeBlockLang,
                 codeBlockContent, inBulletList, bulletItems, inNumberedList,
                 numberedItems, result, origin, codeFrom, bulletFrom,
                 numberedFrom, earlier>>
  /\ UNCHANGED <<lambdaVars, rcaVars>>

\* Lines 93-101: exec found nothing more; return.
InlineDone ==
  /\ pc = "inline"
  /\ ~RegexExec(text, i).matched
  /\ result' = InlineReturn(text, i, content)
  /\ pc' = "returned"
  /\ UNCHANGED <<text, lines, i, content, inCodeBlock, codeBlockLang,
                 codeBlockContent, inBulletList, bulletItems, inNumberedList,
                 numberedItems, origin, codeFrom, bulletFrom, numberedFrom,
                 earlier>>
  /\ UNCHANGED <<lambdaVars, rcaVars>>

\* ------------------------------------------------------------- inputs

Fence == <<Backtick, Backtick, Backtick>>

\* The lines input texts are made of: one or two of every kind the loop
\* tells apart.  The line ending in CR makes a CR LF line end when another
\* line follows it.
LinePool ==
  { Fence,
    Fence \o <<"j", "s">>,
    <<"#", "#", " ", "T">>,
    <<"-", " ", "a">>,
    <<"1", ".", " ", "b">>,
    <<"-", "-", "-">>,
    <<>>,
    <<" ">>,
    <<"x">>,
    <<"x", CR>>,
    <<"*", "*", "b", "*", "*">> }

\* Lines for texts about code blocks: fences without and with a language
\* word and with trailing whitespace, and lines that outside a code block
\* would be a paragraph, a heading, a bullet item, a blank line.
CodePool ==
  { Fence,
    Fence \o <<"j", "s">>,
    Fence \o <<" ">>,
    <<"x">>,
    <<" ", "b", " ">>,
    <<"#", "#", " ", "T">>,
    <<"-", " ", "a">>,
    <<>> }

\* Lines for texts about lists.
ListPool ==
  { <<"-", " ", "a">>,
    <<"-", " ", "b">>,
    <<"1", ".", " ", "a">>,
    <<"2", ".", " ", "b">>,
    <<>>,
    <<" ">>,
    <<"x">>,
    Fence }

\* Lines for texts about headings: one to four and seven hashes, hashes
\* without whitespace after them, and a plain line.
HeadingPool ==
  { <<"#", " ", "T">>,
    <<"#", "#", " ", "T">>,
    <<"#", "#", "#", " ", " ", "T", " ">>,
    <<"#", "#", "#", "#", " ", "T">>,
    <<"#", "#", "#", "#", "#", "#", "#", " ", "T">>,
    <<"#", "#", "T">>,
    <<"-", " ", "a">>,
    <<"x">> }

\* Lines for texts about the text of a heading: remainders holding bold
\* and code delimiters, whitespace around the remainder, an empty
\* remainder, a line ended by CR, four hashes, a bullet line and a fence.
HeadingTextPool ==
  { <<"#", "#", " ", "*", "*", "b", "*", "*">>,
    <<"#", "#", "#", "\t", " ", Backtick, "c", Backtick, " ">>,
    <<"#", "#", " ">>,
    <<"#", "#", " ", "T", CR>>,
    <<"#", "#", "#", "#", " ", "T">>,
    <<"-", " ", "a">>,
    Fence }

\* Lines for texts about rules: lines of dashes only, dashes followed by
\* a space, bullet lines (one whose item is a run of dashes, one with an
\* empty item, one ended by CR) and a fence.
RulePool ==
  { <<"-", "-", "-">>,
    <<"-", "-", "-", "-">>,
    <<"-", "-">>,
    <<"-", "-", "-", " ">>,
    <<"-", " ", "a">>,
    <<"-", " ", "-", "-", "-">>,
    <<"-", " ">>,
    <<"-", " ", "a", CR>>,
    Fence }

\* Lines for texts about the text of a code block: fences, a line with
\* whitespace around a bold pair and a code pair, a bold pair alone, a
\* blank line, a whitespace-only line and a bullet line.
CodeTextPool ==
  { Fence,
    Fence \o <<"j", "s">>,
    <<" ", "*", "*", "b", "*", "*", " ", Backtick, "c", Backtick, " ">>,
    <<"*", "*", "b", "*", "*">>,
    <<>>,
    <<" ", " ">>,
    <<"-", " ", "a">> }

\* The lines of the texts converted repeatedly.
RepeatPool ==
  { Fence \o <<"j", "s">>,
    <<"-", " ", "a">>,
    <<"x">> }

SeqsUpTo(S, n) == UNION {[1..k -> S] : k \in 0..n}

\* The texts of at most n lines of pool.
Texts(pool, n) == {JoinWith(ls, <<LF>>) : ls \in SeqsUpTo(pool, n)}

InitWith(t) ==
  /\ text = t
  /\ pc = "call"
  /\ lines = <<>>
  /\ i = 0
  /\ content = <<>>
  /\ origin = <<>>
  /\ inCodeBlock = FALSE
  /\ codeBlockLang = <<>>
  /\ codeBlockContent = <<>>
  /\ codeFrom = 0
  /\ inBulletList = FALSE
  /\ bulletItems = <<>>
  /\ bulletFrom = 0
  /\ inNumberedList = FALSE
  /\ numberedItems = <<>>
  /\ numberedFrom = 0
  /\ result = Undefined
  /\ earlier = <<>>
  /\ LambdaLoaded
  /\ RcaLoaded

Init == \E t \in Texts(LinePool, MaxLines) : InitWith(t)

Next == EarlyReturn \/ Enter \/ ProcessLine \/ Finish

Spec == Init /\ [][Next]_vars

InitCode == \E t \in Texts(CodePool, MaxLines) : InitWith(t)

SpecCode == InitCode /\ [][Next]_vars

InitLists == \E t \in Texts(ListPool, MaxLines) : InitWith(t)

SpecLists == InitLists /\ [][Next]_vars

InitHeading == \E t \in Texts(HeadingPool, MaxLines) : InitWith(t)

SpecHeading == InitHeading /\ [][Next]_vars

InitHeadingText == \E t \in Texts(HeadingTextPool, MaxLines) : InitWith(t)

SpecHeadingText == InitHeadingText /\ [][Next]_vars

InitRule == \E t \in Texts(RulePool, MaxLines) : InitWith(t)

SpecRule == InitRule /\ [][Next]_vars

InitCodeText == \E t \in Texts(CodeTextPool, MaxLines) : InitWith(t)

SpecCodeText == InitCodeText /\ [][Next]_vars

\* The characters of the strings given to parseInlineFormatting alone.
InlineAlphabet == {"*", Backtick, "a"}

InlineTexts == UNION {[1..n -> InlineAlphabet] : n \in 0..MaxInlineLen}

InitInline ==
  /\ text \in InlineTexts
  /\ pc = "inline"
  /\ lines = <<>>
  /\ i = 0
  /\ content = <<>>
  /\ origin = <<>>
  /\ inCodeBlock = FALSE
  /\ codeBlockLang = <<>>
  /\ codeBlockContent = <<>>
  /\ codeFrom = 0
  /\ inBulletList = FALSE
  /\ bulletItems = <<>>
  /\ bulletFrom = 0
  /\ inNumberedList = FALSE
  /\ numberedItems = <<>>
  /\ numberedFrom = 0
  /\ result = Undefined
  /\ earlier = <<>>
  /\ LambdaLoaded
  /\ RcaLoaded

NextInline == InlineIterate \/ InlineDone

SpecInline == InitInline /\ [][NextInline]_vars

\* A further call of textToADF once a call has returned.  The first call of
\* all is remembered, and whether another text was converted since.
CallAgain ==
  /\ pc = "done"
  /\ \E t \in Texts(RepeatPool, MaxRepeatLines) : text' = t
  /\ pc' = "call"
  /\ earlier' = IF earlier = <<>>
                THEN <<[text |-> text, result |-> result, between |-> FALSE]>>
                ELSE <<[earlier[1] EXCEPT !.between = @ \/ text /= earlier[1].text]>>
  /\ UNCHANGED <<lines, i, content, inCodeBlock, codeBlockLang,
                 codeBlockContent, inBulletList, bulletItems, inNumberedList,
                 numberedItems, result, origin, codeFrom, bulletFrom,
                 numberedFrom>>
  /\ UNCHANGED <<lambdaVars, rcaVars>>

InitRepeat == \E t \in Texts(RepeatPool, MaxRepeatLines) : InitWith(t)

NextRepeat == Next \/ CallAgain

SpecRepeat == InitRepeat /\ [][NextRepeat]_vars

\* ================================================================ lambda.mjs

\* null.
Null == <<"null">>

\* The characters of s.toLowerCase() for the letters of the texts below.
LowerChar(c) ==
  CASE c = "A" -> "a"
    [] c = "C" -> "c"
    [] c = "T" -> "t"
    [] OTHER -> c

ToLowerCase(s) == [k \in 1..Len(s) |-> LowerChar(s[k])]

\* s.includes(sub)
Includes(s, sub) ==
  \E k \in 0..(Len(s) - Len(sub)) : Substring(s, k, k + Len(sub)) = sub

\* The empty string, which every string includes.
EmptyPhrase == <<>>

\* The string 'create a ticket'.
CreateATicket ==
  <<"c", "r", "e", "a", "t", "e", " ", "a", " ", "t", "i", "c", "k", "e", "t">>

\* An array or object that may be missing is <<>> when it is missing (null
\* or undefined) and <<value>> when it is there.  x || [] for such an x:
OrEmptyArray(x) == IF x = <<>> THEN <<>> ELSE x[1]

\* Lines 181-185: the texts of the items of type text, concatenated.
RECURSIVE ItemsText(_)
ItemsText(items) ==
  IF items = <<>> THEN <<>>
  ELSE (IF Head(items).type = "text" THEN Head(items).text ELSE <<>>)
       \o ItemsText(Tail(items))

\* Lines 178-186: the texts of the rich_text_section elements of a block.
RECURSIVE ElementsText(_)
ElementsText(elements) ==
  IF elements = <<>> THEN <<>>
  ELSE (IF Head(elements).type = "rich_text_section"
        THEN ItemsText(OrEmptyArray(Head(elements).elements))
        ELSE <<>>)
       \o ElementsText(Tail(elements))

\* Lines 175-187: the texts of the rich_text blocks.
RECURSIVE BlocksText(_)
BlocksText(blocks) ==
  IF blocks = <<>> THEN <<>>
  ELSE (IF Head(blocks).type = "rich_text"
        THEN ElementsText(OrEmptyArray(Head(blocks).elements))
        ELSE <<>>)
       \o BlocksText(Tail(blocks))

GetCleanSlackText(event) ==
  IF event.blocks = <<>> THEN OrElse(event.text, <<>>)
  ELSE Trim(BlocksText(event.blocks[1]))

\* Line 201: the event is a reply in a thread.
IsThreadReply(evt) ==
  evt.thread_ts # Undefined /\ evt.thread_ts # evt.ts

\* Line 443: the key of an event.  The three parts are kept apart instead
\* of being joined with underscores.
EventKey(body, slackEvent) ==
  <<slackEvent.channel, slackEvent.ts,
    IF body.event_ts # Undefined THEN body.event_ts
    ELSE IF slackEvent.event_ts # Undefined THEN slackEvent.event_ts
    ELSE slackEvent.ts>>

\* Line 457: the number of keys the Set may hold after a call of handler.
MaxProcessedEvents == 1000

\* A Set that, over the limit, deletes its second key and keeps the first.
EvictSecond(keys) ==
  IF Len(keys) > MaxProcessedEvents
  THEN <<keys[1]>> \o SubSeq(keys, 3, Len(keys))
  ELSE keys

\* Lines 457-460: over the limit, the first key of the Set in iteration
\* order, which is insertion order, is deleted.
EvictOldest(keys) ==
  IF Len(keys) > MaxProcessedEvents THEN Tail(keys) ELSE keys

\* Lines 38-42
LogAndSendResponse(response) == response

Ok(message) == [statusCode |-> 200, body |-> [ok |-> TRUE, message |-> message]]

\* Lines 52-113: the description of the ticket.
CreateDescriptionADF(summary, originalText, slackPermalink) ==
  LET textLines == SplitLines(OrElse(originalText, <<>>))
      lineParagraph(line) ==
        IF Len(Trim(line)) > 0 THEN Paragraph(<<TextNode(line)>>)
        ELSE Paragraph(<<>>)
  IN Doc(<<Paragraph(<<TextNode(<<"Created automatically from Slack message.">>)>>),
           Paragraph(<<MarkedNode(summary, "strong")>>),
           Paragraph(<<TextNode(<<"Original message:">>)>>)>>
         \o [k \in 1..Len(textLines) |-> lineParagraph(textLines[k])]
         \o <<Paragraph(<<[type |-> "text", text |-> <<"View in Slack">>,
                           marks |-> <<[type |-> "link",
                                        attrs |-> [href |-> slackPermalink]],
                                       [type |-> "strong"]>>]>>)>>)

\* t.slice(0, n)
SliceTo(t, n) == SubSeq(t, 1, IF n > Len(t) THEN Len(t) ELSE n)

\* text.length > 100 ? text.slice(0, 97) + "..." : text
Truncate(t) ==
  IF Len(t) > 100 THEN SliceTo(t, 97) \o <<".", ".", ".">> ELSE t

\* What the chat-completion call can do: there is no client (line 121), the
\* call or the parsing of its answer throws (line 160), or the answer is
\* parsed into a title and a summary.
OpenAIOutcomes ==
  {[kind |-> "unconfigured", parsed |-> [title |-> <<>>, summary |-> <<>>]],
   [kind |-> "error", parsed |-> [title |-> <<>>, summary |-> <<>>]],
   [kind |-> "ok", parsed |-> [title |-> <<"T">>, summary |-> <<"S", " ">>]],
   [kind |-> "ok", parsed |-> [title |-> <<>>, summary |-> <<>>]]}

\* Lines 120-167
GenerateJiraTicketContent(t, outcome) ==
  IF outcome.kind = "ok"
  THEN [title |-> Truncate(Trim(OrElse(outcome.parsed.title, SliceTo(t, 100)))),
        summary |-> Trim(OrElse(outcome.parsed.summary, t))]
  ELSE [title |-> Truncate(t), summary |-> t]

\* A handler that awaits processEventAsync: when handler returns, the task
\* has run to its end.
StartedTaskAwaited(body, channel, ts, currentEventText) ==
  [body |-> body, channel |-> channel, ts |-> ts,
   currentEventText |-> currentEventText,
   pc |-> "done", parentMessage |-> <<>>,
   text |-> currentEventText, thread_ts |-> ts,
   slackPermalink |-> Undefined, prompt |-> currentEventText,
   jira |-> <<>>, jiraResp |-> <<>>, slackFiles |-> <<>>, file |-> 0,
   attempts |-> <<>>, uploads |-> <<>>, reply |-> <<>>]

\* Lines 221-222 and 199-202: the call of processEventAsync, up to its
\* first await.  jira is the payload posted to Jira and jiraResp the
\* answer, as <<payload>> and <<answer>>; file is the 1-based position in
\* slackFiles of the file the loop of line 312 is at, attempts says how the
\* loop left each file before it, uploads holds the files posted to Jira,
\* and reply is the message posted to Slack, as <<message>>.
StartedTask(body, channel, ts, currentEventText) ==
  [body |-> body, channel |-> channel, ts |-> ts,
   currentEventText |-> currentEventText,
   pc |-> "parent", parentMessage |-> <<>>,
   text |-> Undefined, thread_ts |-> Undefined,
   slackPermalink |-> Undefined, prompt |-> Undefined,
   jira |-> <<>>, jiraResp |-> <<>>, slackFiles |-> <<>>, file |-> 0,
   attempts |-> <<>>, uploads |-> <<>>, reply |-> <<>>]

\* A task that takes the text of the event itself even when a parent
\* message was fetched.
AfterParentOwnText(t, parentMessage) ==
  [t EXCEPT !.parentMessage = parentMessage,
            !.text = t.currentEventText,
            !.thread_ts = IF t.body.event.thread_ts \in {Undefined, Null}
                          THEN t.ts ELSE t.body.event.thread_ts,
            !.pc = IF \/ /\ t.body.type = "event_callback"
                            /\ "type" \in DOMAIN t.body.event
                            /\ t.body.event.type # "app_mention"
                      \/ Falsy(t.channel) \/ Falsy(t.ts)
                   THEN "returned" ELSE "permalink"]

\* A task that goes on whatever the type of the event.
AfterParentAnyType(t, parentMessage) ==
  LET chosen == IF parentMessage # <<>>
                THEN GetCleanSlackText(parentMessage[1])
                ELSE t.currentEventText
  IN IF Falsy(t.channel) \/ Falsy(t.ts)
     THEN [t EXCEPT !.parentMessage = parentMessage, !.text = chosen,
                    !.pc = "returned"]
     ELSE [t EXCEPT !.parentMessage = parentMessage, !.text = chosen,
                    !.thread_ts = IF t.body.event.thread_ts \in {Undefined, Null}
                                  THEN t.ts ELSE t.body.event.thread_ts,
                    !.pc = "permalink"]

\* Lines 224-247: the parent message is there, as <<message>>, or there is
\* none (null or undefined), as <<>>; the text is chosen, the event checked
\* (an event without a type is a record without the field type), and the
\* permalink asked for.
AfterParent(t, parentMessage) ==
  LET chosen == IF parentMessage # <<>>
                THEN GetCleanSlackText(parentMessage[1])
                ELSE t.currentEventText
  IN IF \/ /\ t.body.type = "event_callback"
              /\ "type" \in DOMAIN t.body.event
              /\ t.body.event.type # "app_mention"
        \/ Falsy(t.channel) \/ Falsy(t.ts)
     THEN [t EXCEPT !.parentMessage = parentMessage, !.text = chosen,
                    !.pc = "returned"]
     ELSE [t EXCEPT !.parentMessage = parentMessage, !.text = chosen,
                    !.thread_ts = IF t.body.event.thread_ts \in {Undefined, Null}
                                  THEN t.ts ELSE t.body.event.thread_ts,
                    !.pc = "permalink"]

\* Lines 252-259: the permalink of the answer, or the one built from the
\* channel and the timestamp; the title and the summary are asked for.
AfterPermalink(t, ok) ==
  [t EXCEPT !.slackPermalink = IF ok THEN <<"permalink">>
                               ELSE <<"archives", t.channel, t.ts>>,
            !.prompt = t.text,
            !.pc = "openai"]

\* Lines 259-287: the payload is built and posted to Jira.
AfterOpenAI(t, outcome) ==
  LET generated == GenerateJiraTicketContent(t.text, outcome)
  IN [t EXCEPT !.jira = <<[fields |->
                             [summary |-> generated.title,
                              description |->
                                CreateDescriptionADF(generated.summary, t.text,
                                                     t.slackPermalink)]]>>,
               !.pc = "jira"]

\* Lines 302 and 305: the files of an event or a message, none when it has
\* no field files (or an empty one).
Files(m) == IF "files" \in DOMAIN m THEN m.files ELSE <<>>

\* Lines 312-317 and 405-416: the loop goes to the file at position k.  A
\* file without an id is logged and passed over; for a file with an id
\* files.info is called; after the last file the answer is posted in the
\* Slack thread.
RECURSIVE NextFile(_, _)
NextFile(t, k) ==
  IF k > Len(t.slackFiles)
  THEN [t EXCEPT !.file = k,
                 !.reply = <<[channel |-> t.channel,
                              thread_ts |-> t.thread_ts, mrkdwn |-> TRUE]>>,
                 !.pc = "reply"]
  ELSE IF Falsy(t.slackFiles[k].id)
  THEN NextFile([t EXCEPT !.attempts = Append(@, "skipped")], k + 1)
  ELSE [t EXCEPT !.file = k, !.pc = "fileInfo"]

\* A file that fails ends the loop: the files after it are not gone
\* through, and the answer is posted.
SkippedLeavesLoop(t, outcome) ==
  NextFile([t EXCEPT !.attempts =
                       Append(@, IF outcome = "throws" THEN "threw" ELSE "skipped")],
           Len(t.slackFiles) + 1)

\* A continue statement of the loop ("skipped"), or its catch block
\* (lines 397-400, "threw"): the file is left and the loop goes to the
\* next.
Skipped(t, outcome) ==
  NextFile([t EXCEPT !.attempts =
                       Append(@, IF outcome = "throws" THEN "threw" ELSE "skipped")],
           t.file + 1)

\* The files are attached and the answer posted even when Jira refused to
\* create the issue.
AfterJiraIgnoringStatus(t, ok) ==
  NextFile([t EXCEPT !.jiraResp = <<[ok |-> ok]>>,
                     !.slackFiles =
                       Files(t.body.event)
                       \o (IF t.parentMessage # <<>>
                           THEN Files(t.parentMessage[1]) ELSE <<>>)],
           1)

\* Lines 289-320: Jira answered.  When it did not create the issue the
\* task returns; otherwise the files of the event and of the parent
\* message are collected and the loop over them starts.
AfterJira(t, ok) ==
  IF ~ok THEN [t EXCEPT !.jiraResp = <<[ok |-> FALSE]>>, !.pc = "returned"]
  ELSE NextFile([t EXCEPT !.jiraResp = <<[ok |-> TRUE]>>,
                          !.slackFiles =
                            Files(t.body.event)
                            \o (IF t.parentMessage # <<>>
                                THEN Files(t.parentMessage[1]) ELSE <<>>)],
                1)

\* Lines 320-337: files.info answered with a download URL (the download
\* is asked for), without file, without URL, or it threw.
AfterFileInfo(t, outcome) ==
  IF outcome = "url" THEN [t EXCEPT !.pc = "download"]
  ELSE Skipped(t, outcome)

\* Lines 337-350: the download answered ok (the bytes are read), answered
\* not ok, or the fetch threw.
AfterDownload(t, outcome) ==
  IF outcome = "ok" THEN [t EXCEPT !.pc = "buffer"]
  ELSE Skipped(t, outcome)

\* Lines 350-387: the bytes are there (the file is posted to the issue),
\* there are none, or reading them threw.
AfterBuffer(t, outcome) ==
  IF outcome = "bytes"
  THEN [t EXCEPT !.uploads = Append(@, t.slackFiles[t.file]), !.pc = "upload"]
  ELSE Skipped(t, outcome)

\* Lines 375-396: Jira answered the upload ok or not ok (its body is read
\* next), or the fetch threw.
AfterUpload(t, outcome) ==
  IF outcome = "throws" THEN Skipped(t, outcome)
  ELSE [t EXCEPT !.attempts = Append(@, outcome), !.pc = "uploadBody"]

\* Lines 390-400: the body of the answer was read, or reading it threw;
\* the loop goes to the next file.
AfterUploadBody(t) == NextFile(t, t.file + 1)

\* Lines 418-422: the last await; whatever the answer, the task ends.
AfterReply(t) == [t EXCEPT !.pc = "done"]

\* An exception that leaves processEventAsync: its promise is rejected.
Rethrown(t) == [t EXCEPT !.pc = "rejected"]

\* Lines 420-422: an exception anywhere in processEventAsync is logged.
Caught(t) == [t EXCEPT !.pc = "caught"]

\* ------------------------------------------------ the calls of handler

Ts(n) == <<"ts", n>>

Channel == <<"C", "1">>

MentionText ==
  <<"<", "@", "U", ">", " ", "C", "r", "e", "a", "t", "e", " ", "A", " ",
    "T", "i", "c", "k", "e", "t">>

\* The blocks Slack sends with MentionText: the mention is an item of type
\* user, and the words are in two items of type text.
MentionBlocks ==
  <<[type |-> "rich_text",
     elements |->
       <<<<[type |-> "rich_text_section",
            elements |->
              <<<<[type |-> "user", text |-> Undefined],
                  [type |-> "text", text |-> <<" ", "C", "r", "e", "a", "t", "e", " ", "A">>],
                  [type |-> "text", text |-> <<" ", "T", "i", "c", "k", "e", "t", " ">>]>>>>]>>>>]>>

\* Blocks without user-written text.
QuietBlocks ==
  <<[type |-> "section", elements |-> <<>>],
    [type |-> "rich_text", elements |-> <<>>]>>

SlackEvent(type, n, thread, txt, blocks) ==
  [type |-> type, channel |-> Channel, ts |-> Ts(n), event_ts |-> Ts(n),
   thread_ts |-> thread, text |-> txt, blocks |-> blocks]

\* An event that does not ask for a ticket.
QuietEvent(n) ==
  SlackEvent("app_mention", n, Undefined, <<"h", "i">>, <<>>)

\* An event that asks for a ticket, outside any thread.
AskingEvent(n) ==
  SlackEvent("app_mention", n, Undefined, CreateATicket, <<>>)

\* The events with timestamp n that Slack can deliver.
SlackEvents(n) ==
  {AskingEvent(n),
   SlackEvent("app_mention", n, Ts(0), MentionText, <<MentionBlocks>>),
   SlackEvent("app_mention", n, Ts(n), CreateATicket, <<>>),
   SlackEvent("message", n, Undefined, CreateATicket, <<>>),
   QuietEvent(n),
   SlackEvent("app_mention", n, Ts(0), <<"h", "i">>, <<QuietBlocks>>)}

\* JSON.parse of the body of a delivery (line 427) gives body, or throws.
Delivery(body) == [parses |-> TRUE, body |-> body]

EventCallback(evt) ==
  [type |-> "event_callback", event |-> evt, event_ts |-> Undefined,
   challenge |-> Undefined]

UrlVerification ==
  [type |-> "url_verification", event |-> QuietEvent(0),
   event_ts |-> Undefined, challenge |-> <<"x">>]

Malformed == [parses |-> FALSE, body |-> UrlVerification]

\* A delivery without body: event.body is undefined.
NoBody == [parses |-> TRUE]

\* A body that has no event and none of the fields of one; handler takes
\* the body itself for the event (line 439).
BodyWithoutEvent ==
  [type |-> "event_callback", event_ts |-> Undefined, challenge |-> Undefined,
   channel |-> Undefined, ts |-> Undefined, thread_ts |-> Undefined,
   text |-> Undefined, blocks |-> <<>>]

\* The message at the top of the thread, as conversations.replies gives it.
ParentMessage == [text |-> <<"b", "u", "g">>, blocks |-> <<>>]

\* A membership test that does not see the key added last, as a test made
\* before a suspension would not see an insertion made during it.
HasStale(keys, key) == \E k \in 1..(Len(keys) - 1) : keys[k] = key

\* processedEvents.has(key)
Has(keys, key) == \E k \in 1..Len(keys) : keys[k] = key

\* What the last call of handler saw and returned: the body held an event,
\* its key was in the Set, its text, whether the text asked for a ticket.
Call(isEvent, duplicate, txt, asked, response) ==
  <<[isEvent |-> isEvent, duplicate |-> duplicate, text |-> txt,
     asked |-> asked, response |-> response]>>

\* The number of add() calls so far.
Insertions ==
  IF insertedAt = <<>> THEN 0 ELSE insertedAt[Len(insertedAt)]

\* Lines 425-496: one call of handler, up to its return.  processEventAsync
\* is called and not awaited: it has run up to its first await.  At most
\* maxTasks calls of processEventAsync are followed.  JSON.parse throwing
\* (line 428) and reading slackEvent.channel of an undefined body (line
\* 443) both end in the catch of line 489.
Handler(event, maxTasks) ==
  LET body == event.body
      slackEvent == IF "event" \in DOMAIN body THEN body.event ELSE body
      eventKey == EventKey(body, slackEvent)
      channel == slackEvent.channel
      ts == slackEvent.ts
      currentEventText == GetCleanSlackText(slackEvent)
      asked == Includes(ToLowerCase(currentEventText), CreateATicket)
  IN IF ~event.parses \/ "body" \notin DOMAIN event
     THEN /\ lastCall' = Call(FALSE, FALSE, <<>>, FALSE,
                              LogAndSendResponse(
                                [statusCode |-> 500,
                                 body |-> <<"Internal Server Error">>]))
          /\ UNCHANGED <<processedEvents, insertedAt, tasks>>
     ELSE IF body.type = "url_verification"
     THEN /\ lastCall' = Call(FALSE, FALSE, <<>>, FALSE,
                              LogAndSendResponse(
                                [statusCode |-> 200, body |-> body.challenge]))
          /\ UNCHANGED <<processedEvents, insertedAt, tasks>>
     ELSE IF Has(processedEvents, eventKey)
     THEN /\ lastCall' = Call(TRUE, TRUE, currentEventText, asked,
                              LogAndSendResponse(Ok("Event already processed")))
          /\ UNCHANGED <<processedEvents, insertedAt, tasks>>
     ELSE /\ processedEvents' = EvictOldest(Append(processedEvents, eventKey))
          /\ insertedAt' = EvictOldest(Append(insertedAt, Insertions + 1))
          /\ IF ~asked
             THEN /\ lastCall' = Call(TRUE, FALSE, currentEventText, FALSE,
                                      LogAndSendResponse(Ok("No operations required")))
                  /\ UNCHANGED tasks
             ELSE /\ Len(tasks) < maxTasks
                  /\ lastCall' = Call(TRUE, FALSE, currentEventText, TRUE,
                                      LogAndSendResponse(
                                        Ok("Event received, processing...")))
                  /\ tasks' = Append(tasks,
                                     StartedTask(body, channel, ts,
                                                 currentEventText))

\* ------------------------------------------ the awaits of processEventAsync

\* Task k goes on as next says; nothing else changes.
Resume(k, next) ==
  /\ tasks' = [tasks EXCEPT ![k] = next]
  /\ UNCHANGED <<processedEvents, lastCall, insertedAt, invocations>>
  /\ UNCHANGED <<adfVars, rcaVars>>

\* Line 224: getParentMessageIfThreadReply settles.  For a reply in a
\* thread conversations.replies gave the parent message, or no message, or
\* threw; for any other event the value is null.
ParentResolved ==
  \E k \in 1..Len(tasks) :
    /\ tasks[k].pc = "parent"
    /\ IF IsThreadReply(tasks[k].body.event)
       THEN \E outcome \in {"message", "none", "throws"} :
              Resume(k, CASE outcome = "message" ->
                               AfterParent(tasks[k], <<ParentMessage>>)
                          [] outcome = "none" -> AfterParent(tasks[k], <<>>)
                          [] OTHER -> Caught(tasks[k]))
       ELSE Resume(k, AfterParent(tasks[k], <<>>))

\* Lines 244-256: chat.getPermalink answered ok, answered not ok, or the
\* fetch threw.
PermalinkAnswered ==
  \E k \in 1..Len(tasks) :
    /\ tasks[k].pc = "permalink"
    /\ \E outcome \in {"ok", "notok", "throws"} :
         Resume(k, IF outcome = "throws" THEN Caught(tasks[k])
                   ELSE AfterPermalink(tasks[k], outcome = "ok"))

\* Line 259: generateJiraTicketContent settles (it catches its own errors).
OpenAIAnswered ==
  \E k \in 1..Len(tasks) :
    /\ tasks[k].pc = "openai"
    /\ \E outcome \in OpenAIOutcomes : Resume(k, AfterOpenAI(tasks[k], outcome))

\* Lines 276-294: Jira answered ok, answered not ok, or the fetch threw.
JiraAnswered ==
  \E k \in 1..Len(tasks) :
    /\ tasks[k].pc = "jira"
    /\ \E outcome \in {"ok", "notok", "throws"} :
         Resume(k, IF outcome = "throws" THEN Caught(tasks[k])
                   ELSE AfterJira(tasks[k], outcome = "ok"))

\* Lines 405-419: chat.postMessage answered, or the fetch threw.
ReplyAnswered ==
  \E k \in 1..Len(tasks) :
    /\ tasks[k].pc = "reply"
    /\ \E outcome \in {"answered", "throws"} :
         Resume(k, IF outcome = "throws" THEN Caught(tasks[k])
                   ELSE AfterReply(tasks[k]))

\* -------------------------------------------------- the Lambda function

\* What Slack delivers, each any number of times: the events with timestamp
\* 1, two events with timestamp 2, the challenge, and a body that is not
\* JSON.
HandlerEvents ==
  {Delivery(EventCallback(e)) :
     e \in SlackEvents(1) \cup {AskingEvent(2), QuietEvent(2)}}
  \cup {Delivery(UrlVerification), Malformed}

HandlerCalled ==
  /\ \E event \in HandlerEvents : Handler(event, MaxTasks)
  /\ UNCHANGED invocations
  /\ UNCHANGED <<adfVars, rcaVars>>

InitHandler == InitWith(<<>>)

NextHandler ==
  \/ HandlerCalled
  \/ ParentResolved
  \/ PermalinkAnswered
  \/ OpenAIAnswered
  \/ JiraAnswered
  \/ ReplyAnswered

SpecHandler == InitHandler /\ [][NextHandler]_vars

\* ------------------------------------------- the attachments of an event

\* A file of a Slack message; one that has no id has undefined for it.
SlackFile(id) == [id |-> id, name |-> <<"f">>]

SlackEventWithFiles(type, n, thread, files) ==
  [type |-> type, channel |-> Channel, ts |-> Ts(n), event_ts |-> Ts(n),
   thread_ts |-> thread, text |-> CreateATicket, blocks |-> <<>>,
   files |-> files]

\* An event that has no type and no files.
UntypedEvent(n) ==
  [channel |-> Channel, ts |-> Ts(n), event_ts |-> Ts(n),
   thread_ts |-> Undefined, text |-> CreateATicket, blocks |-> <<>>]

\* A parent message with a file of its own.
ParentWithFile ==
  [text |-> <<"b", "u", "g">>, blocks |-> <<>>,
   files |-> <<SlackFile(<<"F", "3">>)>>]

\* The events delivered, all asking for a ticket: a mention with a file
\* without id and a file with one, a mention in a thread with one file, a
\* message that is no mention with one file, and an event without type.
AttachEvents ==
  {Delivery(EventCallback(e)) :
     e \in {SlackEventWithFiles("app_mention", 1, Undefined,
                                <<SlackFile(Undefined), SlackFile(<<"F", "1">>)>>),
            SlackEventWithFiles("app_mention", 2, Ts(0),
                                <<SlackFile(<<"F", "2">>)>>),
            SlackEventWithFiles("message", 3, Undefined,
                                <<SlackFile(<<"F", "1">>)>>),
            UntypedEvent(4)}}

AttachCalled ==
  /\ \E event \in AttachEvents : Handler(event, MaxTasks)
  /\ UNCHANGED invocations
  /\ UNCHANGED <<adfVars, rcaVars>>

\* Line 224: getParentMessageIfThreadReply settles, the parent message
\* having a file.
AttachParentResolved ==
  \E k \in 1..Len(tasks) :
    /\ tasks[k].pc = "parent"
    /\ IF IsThreadReply(tasks[k].body.event)
       THEN \E outcome \in {"message", "none", "throws"} :
              Resume(k, CASE outcome = "message" ->
                               AfterParent(tasks[k], <<ParentWithFile>>)
                          [] outcome = "none" -> AfterParent(tasks[k], <<>>)
                          [] OTHER -> Caught(tasks[k]))
       ELSE Resume(k, AfterParent(tasks[k], <<>>))

\* Line 320: files.info settles.
FileInfoAnswered ==
  \E k \in 1..Len(tasks) :
    /\ tasks[k].pc = "fileInfo"
    /\ \E outcome \in {"url", "noFile", "noUrl", "throws"} :
         Resume(k, AfterFileInfo(tasks[k], outcome))

\* Line 337: the download settles.
DownloadAnswered ==
  \E k \in 1..Len(tasks) :
    /\ tasks[k].pc = "download"
    /\ \E outcome \in {"ok", "notok", "throws"} :
         Resume(k, AfterDownload(tasks[k], outcome))

\* Line 350: arrayBuffer() settles.
BufferRead ==
  \E k \in 1..Len(tasks) :
    /\ tasks[k].pc = "buffer"
    /\ \E outcome \in {"bytes", "empty", "throws"} :
         Resume(k, AfterBuffer(tasks[k], outcome))

\* Line 375: the upload to Jira settles.
UploadAnswered ==
  \E k \in 1..Len(tasks) :
    /\ tasks[k].pc = "upload"
    /\ \E outcome \in {"uploaded", "refused", "throws"} :
         Resume(k, AfterUpload(tasks[k], outcome))

\* Lines 391 and 396: text() or json() of the answer settles, or throws.
UploadBodyRead ==
  \E k \in 1..Len(tasks) :
    /\ tasks[k].pc = "uploadBody"
    /\ Resume(k, AfterUploadBody(tasks[k]))

NextAttach ==
  \/ AttachCalled
  \/ AttachParentResolved
  \/ PermalinkAnswered
  \/ OpenAIAnswered
  \/ JiraAnswered
  \/ FileInfoAnswered
  \/ DownloadAnswered
  \/ BufferRead
  \/ UploadAnswered
  \/ UploadBodyRead
  \/ ReplyAnswered

SpecAttach == InitHandler /\ [][NextAttach]_vars

\* A long run of the function: Slack delivers events with new timestamps
\* (the number of the next add() is one), up to MaxCacheEvents, none asking
\* for a ticket, and at any time the event with timestamp 1 that asks for
\* one.
CacheEvents ==
  {Delivery(EventCallback(QuietEvent(n))) :
     n \in {n \in {Insertions + 1} : n <= MaxCacheEvents}}
  \cup {Delivery(EventCallback(AskingEvent(1)))}

CacheCalled ==
  /\ \E event \in CacheEvents : Handler(event, MaxCacheTasks)
  /\ UNCHANGED invocations
  /\ UNCHANGED <<adfVars, rcaVars>>

NextCache == CacheCalled

SpecCache == InitHandler /\ [][NextCache]_vars

\* ------------------------------------------------ deliveries gone wrong

\* What reaches the function: a body that is not JSON, no body, a body
\* without event, the challenge, and an event that asks for a ticket.
ErrorEvents ==
  {Malformed, NoBody, Delivery(BodyWithoutEvent), Delivery(UrlVerification),
   Delivery(EventCallback(AskingEvent(1)))}

\* Lines 425-496: handler is called for a delivery and returns a response,
\* which is kept with the delivery.
ErrorsCalled ==
  /\ Len(invocations) < MaxDeliveries
  /\ \E event \in ErrorEvents :
       /\ Handler(event, MaxTasks)
       /\ invocations' = Append(invocations,
                                [event |-> event,
                                 response |-> <<lastCall'[1].response>>])
  /\ UNCHANGED <<adfVars, rcaVars>>

NextErrors ==
  \/ ErrorsCalled
  \/ ParentResolved
  \/ PermalinkAnswered
  \/ OpenAIAnswered
  \/ JiraAnswered
  \/ ReplyAnswered

SpecErrors == InitHandler /\ [][NextErrors]_vars

\* --------------------------------------------- deliveries in flight

\* The deliveries that reach the function while others are in flight: an
\* event that asks for a ticket and one that does not, each any number of
\* times (Slack delivers an event again when it is not answered in time).
ConcurrentEvents ==
  {Delivery(EventCallback(AskingEvent(1))),
   Delivery(EventCallback(QuietEvent(2)))}

\* The runtime receives a delivery; handler has not run for it yet.
Receive ==
  /\ Len(invocations) < MaxDeliveries
  /\ \E event \in ConcurrentEvents :
       invocations' = Append(invocations, [event |-> event, response |-> <<>>])
  /\ UNCHANGED <<processedEvents, tasks, lastCall, insertedAt>>
  /\ UNCHANGED <<adfVars, rcaVars>>

\* Lines 425-496: handler runs for one of the deliveries received, in any
\* order.  It holds no await, so it runs from its first line to its return
\* without another call of handler or a step of processEventAsync in
\* between.
Invoke ==
  /\ \E k \in 1..Len(invocations) :
       /\ invocations[k].response = <<>>
       /\ Handler(invocations[k].event, MaxCacheTasks)
       /\ invocations' =
            [invocations EXCEPT ![k].response = <<lastCall'[1].response>>]
  /\ UNCHANGED <<adfVars, rcaVars>>

NextConcurrent ==
  \/ Receive
  \/ Invoke
  \/ ParentResolved
  \/ PermalinkAnswered
  \/ OpenAIAnswered
  \/ JiraAnswered
  \/ ReplyAnswered

SpecConcurrent == InitHandler /\ [][NextConcurrent]_vars

\* ------------------------------------------------------------- claims

BlockTypes ==
  {"paragraph", "heading", "codeBlock", "bulletList", "orderedList", "rule"}

IsDoc(d) ==
  /\ d.type = "doc"
  /\ d.version = 1
  /\ \A k \in 1..Len(d.content) : d.content[k].type \in BlockTypes

\* Line k (0-based) of the input is a fence line.
IsFenceLine(k) == CodeBlockMatch(At(lines, k)).matched

\* Line k (0-based) is met while no code block is open: an even number of
\* fence lines comes before it.
OutsideCode(k) == Cardinality({j \in 0..(k - 1) : IsFenceLine(j)}) % 2 = 0

\* C1: textToADF is total: on every input string the call never throws,
\* the loop index stays within the lines (so the scan ends), the value
\* returned is a document of blocks, and for the empty string the block
\* sequence is empty.
C1_Total ==
  /\ pc /= "threw"
  /\ pc = "scan" => i \in 0..Len(lines)
  /\ pc = "done" => /\ IsDoc(result)
                    /\ text = <<>> => result.content = <<>>

\* A call on malformed input (a fence that is never closed) has returned
\* a document with blocks.
C1_Witness == pc = "done" /\ inCodeBlock /\ result.content /= <<>>

\* C2: converting a text again, whatever was converted since, returns the
\* same tree as the first time, and every call starts its scan with all
\* accumulators empty.
C2_Deterministic ==
  /\ (pc = "done" /\ earlier /= <<>> /\ earlier[1].text = text)
       => result = earlier[1].result
  /\ (pc = "scan" /\ i = 0)
       => /\ content = <<>> /\ codeBlockContent = <<>>
          /\ bulletItems = <<>> /\ numberedItems = <<>>
          /\ ~inCodeBlock /\ ~inBulletList /\ ~inNumberedList

\* The first text has been converted again after another text, and the
\* tree is not empty.
C2_Witness ==
  /\ pc = "done" /\ earlier /= <<>> /\ earlier[1].text = text
  /\ earlier[1].between
  /\ result.content /= <<>>

\* The kind of block that line k (0-based) starts outside a code block.
KindOfLine(k) ==
  LET line == At(lines, k)
  IN IF CodeBlockMatch(line).matched THEN "codeBlock"
     ELSE IF HeadingMatch(line).matched THEN "heading"
     ELSE IF BulletMatch(line).matched THEN "bulletList"
     ELSE IF NumberedMatch(line).matched THEN "orderedList"
     ELSE IF RuleMatch(line) THEN "rule"
     ELSE IF IsBlank(line) THEN "blank"
     ELSE "paragraph"

\* C3: blocks appear in input order: tagging each block with the index of
\* the first line that contributed to it (a line outside any code block,
\* of the block's kind), the tags increase strictly along the block
\* sequence, which is the sequence returned.
C3_BlockOrder ==
  /\ Len(origin) = Len(content)
  /\ \A k \in 1..Len(origin) :
       /\ origin[k] \in 0..(Len(lines) - 1)
       /\ OutsideCode(origin[k])
       /\ KindOfLine(origin[k]) = content[k].type
  /\ \A k \in 1..(Len(origin) - 1) : origin[k] < origin[k + 1]
  /\ (pc = "done" /\ ~Falsy(text)) => result.content = content

\* A document of three blocks or more with a code block and a list.
C3_Witness ==
  /\ pc = "done" /\ Len(content) >= 3
  /\ \E a, b \in 1..Len(content) :
       /\ content[a].type = "codeBlock"
       /\ content[b].type \in {"bulletList", "orderedList"}

\* C4: an input whose lines are all plain (no fence, heading, bullet,
\* numbered, rule or blank line) gives exactly one Paragraph per line, in
\* line order.
C4_ParagraphPerLine ==
  (pc = "done" /\ lines /= <<>>
     /\ \A k \in 0..(Len(lines) - 1) : KindOfLine(k) = "paragraph")
  => /\ Len(result.content) = Len(lines)
     /\ \A k \in 1..Len(lines) :
          result.content[k] = Paragraph(ParseInlineFormatting(lines[k]))

\* Three plain lines, not all the same, have been converted.
C4_Witness ==
  /\ pc = "done" /\ Len(lines) = 3
  /\ \A k \in 0..(Len(lines) - 1) : KindOfLine(k) = "paragraph"
  /\ lines[1] /= lines[2]
  /\ Len(result.content) = 3

\* The language a fence line names: the word after the backticks, 'plain'
\* when there is none.
LangWord(line) ==
  LET word == TakeWhile(Drop(line, 3), WordChars)
  IN IF word = <<>> THEN Plain ELSE word

\* The CodeBlock for opening fence line a and the lines a+1 .. b-1 (0-based).
ExpectedCodeBlock(a, b) ==
  [type |-> "codeBlock",
   attrs |-> [language |-> LangWord(At(lines, a))],
   content |-> <<[type |-> "text",
                  text |-> JoinWith(SubSeq(lines, a + 2, b), <<LF>>)]>>]

\* The indices of the blocks whose first line is one of lines a .. b.
BlocksFrom(a, b) == {k \in 1..Len(origin) : origin[k] \in a..b}

\* C5: an opening fence line a, content lines and the closing fence line b
\* yield exactly one block for the lines a .. b: a CodeBlock whose language
\* is the word of the opening fence ('plain' without one) and whose content
\* is the lines in between joined by newline.
C5_FencedBlock ==
  pc = "done" =>
    \A a, b \in 0..(Len(lines) - 1) :
      (/\ a < b
       /\ IsFenceLine(a) /\ OutsideCode(a) /\ IsFenceLine(b)
       /\ \A j \in (a + 1)..(b - 1) : ~IsFenceLine(j))
      => /\ Cardinality(BlocksFrom(a, b)) = 1
         /\ \A k \in BlocksFrom(a, b) :
              result.content[k] = ExpectedCodeBlock(a, b)

\* A js fence, two different content lines and a closing fence gave one
\* CodeBlock.
C5_Witness ==
  /\ pc = "done" /\ Len(lines) = 4
  /\ IsFenceLine(0) /\ ~IsFenceLine(1) /\ ~IsFenceLine(2) /\ IsFenceLine(3)
  /\ lines[2] /= lines[3]
  /\ Len(result.content) = 1
  /\ result.content[1].attrs.language = <<"j", "s">>

\* The input ends inside a code block: the number of fence lines is odd.
OpenAtEnd == Cardinality({j \in 0..(Len(lines) - 1) : IsFenceLine(j)}) % 2 = 1

\* The index of the last fence line.
LastFence ==
  CHOOSE a \in 0..(Len(lines) - 1) :
    IsFenceLine(a) /\ \A j \in (a + 1)..(Len(lines) - 1) : ~IsFenceLine(j)

IsBareFence(line) ==
  /\ Len(line) >= 3
  /\ SubSeq(line, 1, 3) = <<Backtick, Backtick, Backtick>>
  /\ AllIn(Drop(line, 3), WhitespaceChars)

\* C7 as claimed: while a code block is open, a line of exactly three
\* backticks and optional whitespace closes it, and any other line is
\* appended to the code buffer, emits nothing and leaves the block open.
C7_Original ==
  [][(pc = "scan" /\ inCodeBlock /\ i < Len(lines))
     => IF IsBareFence(At(lines, i))
        THEN ~inCodeBlock'
        ELSE /\ inCodeBlock'
             /\ codeBlockContent' = Append(codeBlockContent, At(lines, i))
             /\ content' = content
             /\ bulletItems' = bulletItems
             /\ numberedItems' = numberedItems]_vars

ListKinds == {"bulletList", "orderedList"}

\* Line k (0-based) is met outside a code block and is a list line of kind.
IsListLine(k, kind) ==
  /\ k \in 0..(Len(lines) - 1)
  /\ OutsideCode(k)
  /\ KindOfLine(k) = kind

\* The text of the item of list line k: what follows the marker and its
\* whitespace.
ItemText(k) ==
  IF BulletMatch(At(lines, k)).matched THEN BulletMatch(At(lines, k)).g1
  ELSE NumberedMatch(At(lines, k)).g1

\* The list node of kind for the list lines a .. b (0-based), one item per
\* line, in line order.
ExpectedList(kind, a, b) ==
  [type |-> kind,
   content |->
     [j \in 1..(b - a + 1) |->
        [type |-> "listItem",
         content |-> <<[type |-> "paragraph",
                        content |-> ParseInlineFormatting(ItemText(a + j - 1))]>>]]]

\* C8: a maximal run a .. b of consecutive bullet lines (of numbered
\* lines) outside a code block yields exactly one block for those lines:
\* a BulletList (an OrderedList) with one item per line, in line order.
C8_ListPerRun ==
  pc = "done" =>
    \A kind \in ListKinds : \A a, b \in 0..(Len(lines) - 1) :
      (/\ a <= b
       /\ \A j \in a..b : IsListLine(j, kind)
       /\ ~IsListLine(a - 1, kind)
       /\ ~IsListLine(b + 1, kind))
      => /\ Cardinality(BlocksFrom(a, b)) = 1
         /\ \A k \in BlocksFrom(a, b) :
              result.content[k] = ExpectedList(kind, a, b)

\* Three bullet lines, not all the same, followed by another line gave a
\* BulletList of three items.
C8_Witness ==
  /\ pc = "done" /\ Len(lines) = 4
  /\ \A j \in 0..2 : IsListLine(j, "bulletList")
  /\ ~IsListLine(3, "bulletList")
  /\ lines[1] /= lines[2]
  /\ result.content[1].type = "bulletList"
  /\ Len(result.content[1].content) = 3

\* C9: where a bullet line and a numbered line are next to each other
\* outside a code block, the document has two list nodes next to each
\* other, in the order of the lines, the second starting at the second
\* line; and every list node holds exactly the items of as many
\* consecutive lines of its own kind.
C9_KindChangeSplits ==
  pc = "done" =>
    /\ \A k \in 0..(Len(lines) - 2) :
         (/\ OutsideCode(k)
          /\ KindOfLine(k) \in ListKinds
          /\ KindOfLine(k + 1) \in ListKinds
          /\ KindOfLine(k) /= KindOfLine(k + 1))
         => \E p \in 1..(Len(result.content) - 1) :
              /\ result.content[p].type = KindOfLine(k)
              /\ result.content[p + 1].type = KindOfLine(k + 1)
              /\ origin[p] <= k
              /\ origin[p + 1] = k + 1
    /\ \A p \in 1..Len(result.content) :
         result.content[p].type \in ListKinds
         => LET last == origin[p] + Len(result.content[p].content) - 1
            IN /\ \A j \in origin[p]..last :
                    IsListLine(j, result.content[p].type)
               /\ result.content[p]
                    = ExpectedList(result.content[p].type, origin[p], last)

\* Bullet, numbered, bullet: three list nodes of one item each.
C9_Witness ==
  /\ pc = "done" /\ Len(lines) = 3
  /\ IsListLine(0, "bulletList")
  /\ IsListLine(1, "orderedList")
  /\ IsListLine(2, "bulletList")
  /\ Len(result.content) = 3

\* The block sequence after a blank line met outside a code block: the
\* open list, if any, is added as one list node, and nothing else.
AfterBlank ==
  IF bulletItems /= <<>>
  THEN Append(content, ExpectedList("bulletList", i - Len(bulletItems), i - 1))
  ELSE IF numberedItems /= <<>>
  THEN Append(content, ExpectedList("orderedList", i - Len(numberedItems), i - 1))
  ELSE content

\* C10: the step on a whitespace-only line outside a code block adds no
\* block of its own: it adds the open list as one list node, or nothing,
\* and leaves both list buffers empty.
C10_BlankLine ==
  [][(/\ pc = "scan" /\ i < Len(lines) /\ ~inCodeBlock
      /\ AllIn(At(lines, i), WhitespaceChars))
     => /\ content' = AfterBlank
        /\ bulletItems' = <<>> /\ numberedItems' = <<>>
        /\ ~inBulletList' /\ ~inNumberedList']_vars

\* List items on both sides of a blank line ended up in two list nodes and
\* the blank line gave no block.
C10_Witness ==
  /\ pc = "done" /\ Len(lines) = 3
  /\ IsListLine(0, "bulletList")
  /\ KindOfLine(1) = "blank"
  /\ IsListLine(2, "bulletList")
  /\ Len(result.content) = 2
  /\ result.content[1].type = "bulletList"
  /\ result.content[2].type = "bulletList"

\* C11: every BulletList and OrderedList node of the block sequence has
\* at least one item, and flushing a list buffer that is empty gives back
\* the accumulators unchanged (nothing emitted).
C11_NoEmptyList ==
  /\ \A k \in 1..Len(content) :
       content[k].type \in ListKinds => Len(content[k].content) >= 1
  /\ pc = "done" =>
       \A k \in 1..Len(result.content) :
         result.content[k].type \in ListKinds
         => Len(result.content[k].content) >= 1
  /\ bulletItems = <<>> => FlushBulletList(Locals) = Locals
  /\ numberedItems = <<>> => FlushNumberedList(Locals) = Locals

\* A paragraph line flushed both empty buffers and emitted only its
\* Paragraph, and a list node follows it.
C11_Witness ==
  /\ pc = "done" /\ Len(result.content) = 2
  /\ result.content[1].type = "paragraph"
  /\ result.content[2].type \in ListKinds
  /\ Len(result.content[2].content) = 2

\* C12: every Heading node has a level in 2..6.
C12_HeadingLevel ==
  /\ \A k \in 1..Len(content) :
       content[k].type = "heading" => content[k].attrs.level \in 2..6
  /\ pc = "done" =>
       \A k \in 1..Len(result.content) :
         result.content[k].type = "heading"
         => result.content[k].attrs.level \in 2..6

\* Headings of level 2 and of level 3 were emitted, and a line of four
\* hashes was not made a heading.
C12_Witness ==
  /\ pc = "done" /\ Len(lines) = 3
  /\ Len(TakeWhile(lines[3], {"#"})) = 4
  /\ Len(result.content) = 3
  /\ result.content[1].type = "heading" /\ result.content[1].attrs.level = 2
  /\ result.content[2].type = "heading" /\ result.content[2].attrs.level = 3
  /\ result.content[3].type = "paragraph"

\* ----------------------------------------------- inline scanner claims

\* The mark of an inline node, "none" for a plain Text node.
MarkOf(n) == IF "marks" \in DOMAIN n THEN n.marks[1].type ELSE "none"

\* The number of characters of the line an inline node stands for: its
\* text and the delimiters of its mark.
SourceLen(n) ==
  Len(n.text) + (CASE MarkOf(n) = "strong" -> 4
                   [] MarkOf(n) = "code" -> 2
                   [] OTHER -> 0)

\* The 0-based position in the line where node k of res starts.
RECURSIVE NodeStart(_, _)
NodeStart(res, k) ==
  IF k = 1 THEN 0 ELSE NodeStart(res, k - 1) + SourceLen(res[k - 1])

\* t has a complete bold pair: two stars at 0-based a and a + 1, two stars
\* at q and q + 1, and at least one character, none a star, between.
BoldPair(t, a, q) ==
  /\ a >= 0 /\ q >= a + 3 /\ q + 2 <= Len(t)
  /\ t[a + 1] = "*" /\ t[a + 2] = "*"
  /\ t[q + 1] = "*" /\ t[q + 2] = "*"
  /\ \A j \in (a + 2)..(q - 1) : t[j + 1] # "*"

\* t has a complete code pair: a backtick at 0-based a, one at q, and at
\* least one character, none a backtick, between.
CodePair(t, a, q) ==
  /\ a >= 0 /\ q >= a + 2 /\ q + 1 <= Len(t)
  /\ t[a + 1] = Backtick /\ t[q + 1] = Backtick
  /\ \A j \in (a + 1)..(q - 1) : t[j + 1] # Backtick

PairStartsAt(t, a) ==
  \E q \in 0..Len(t) : BoldPair(t, a, q) \/ CodePair(t, a, q)

\* C13: the returned nodes cover the line from left to right; a marked
\* span sits on a complete delimiter pair and holds exactly the characters
\* between its delimiters (delimiters of the other kind included); the next
\* node starts right after the closing delimiter; a plain Text node holds
\* the characters of its stretch, and no complete pair starts inside it, so
\* the earliest pair of the remaining text is the one that was matched.
C13_InlineScan ==
  pc = "returned" =>
    /\ NodeStart(result, Len(result)) + SourceLen(result[Len(result)])
         = Len(text)
    /\ \A k \in 1..Len(result) :
         LET n == result[k]
             s == NodeStart(result, k)
             L == Len(n.text)
         IN CASE MarkOf(n) = "strong" ->
                   /\ BoldPair(text, s, s + 2 + L)
                   /\ n.text = Substring(text, s + 2, s + 2 + L)
              [] MarkOf(n) = "code" ->
                   /\ CodePair(text, s, s + 1 + L)
                   /\ n.text = Substring(text, s + 1, s + 1 + L)
              [] OTHER ->
                   /\ n.text = Substring(text, s, s + L)
                   /\ \A p \in s..(s + L - 1) : ~PairStartsAt(text, p)
                   /\ L > 0 \/ text = <<>>
                   /\ k > 1 => MarkOf(result[k - 1]) # "none"

\* Plain text, then a bold span that keeps a backtick as literal text,
\* then a code span.
C13_Witness ==
  /\ pc = "returned" /\ Len(result) = 3
  /\ MarkOf(result[1]) = "none"
  /\ MarkOf(result[2]) = "strong" /\ result[2].text = <<Backtick>>
  /\ MarkOf(result[3]) = "code"

\* The texts of the nodes of res, concatenated in order.
RECURSIVE ConcatText(_)
ConcatText(res) ==
  IF res = <<>> THEN <<>> ELSE Head(res).text \o ConcatText(Tail(res))

\* The 0-based positions of the line taken by the delimiters of the marked
\* nodes of res.
DelimiterPositions(res) ==
  UNION {LET s == NodeStart(res, k)
             L == Len(res[k].text)
         IN CASE MarkOf(res[k]) = "strong" -> {s, s + 1, s + 2 + L, s + 3 + L}
              [] MarkOf(res[k]) = "code" -> {s, s + 1 + L}
              [] OTHER -> {}
         : k \in 1..Len(res)}

\* The characters of t whose 0-based positions are not in drop, in order.
RECURSIVE Without(_, _, _)
Without(t, drop, p) ==
  IF p >= Len(t) THEN <<>>
  ELSE (IF p \in drop THEN <<>> ELSE <<t[p + 1]>>) \o Without(t, drop, p + 1)

\* C14 as stated: concatenating the text of the returned nodes in order
\* gives back the line verbatim.
C14_Original == pc = "returned" => ConcatText(result) = text

\* C14: concatenating the text of the returned nodes in order gives back
\* the line without the delimiters of its marked spans (four characters
\* less for each bold span, two for each code span), so the line comes
\* back verbatim exactly when no marked span was produced.
C14_ConcatDropsDelimiters ==
  pc = "returned" =>
    /\ ConcatText(result) = Without(text, DelimiterPositions(result), 0)
    /\ Len(ConcatText(result))
         = Len(text) - Cardinality(DelimiterPositions(result))
    /\ ConcatText(result) = text
         <=> \A k \in 1..Len(result) : MarkOf(result[k]) = "none"

\* A bold span, plain text and a code span: the concatenation is six
\* characters shorter than the line.
C14_Witness ==
  /\ pc = "returned" /\ Len(result) = 3
  /\ MarkOf(result[1]) = "strong"
  /\ MarkOf(result[2]) = "none"
  /\ MarkOf(result[3]) = "code"
  /\ Len(ConcatText(result)) = Len(text) - 6

\* The character at 0-based p of t is a delimiter character: a backtick,
\* or a star next to a star.
DelimiterChar(t, p) ==
  \/ t[p + 1] = Backtick
  \/ /\ t[p + 1] = "*"
     /\ \/ p >= 1 /\ t[p] = "*"
        \/ p + 2 <= Len(t) /\ t[p + 2] = "*"

\* The character at p is a delimiter character of some complete pair.
InSomePair(t, p) ==
  \E a, q \in 0..Len(t) :
    \/ BoldPair(t, a, q) /\ p \in {a, a + 1, q, q + 1}
    \/ CodePair(t, a, q) /\ p \in {a, q}

\* The delimiter characters of t that no complete pair can use.
Unmatched(t) ==
  {p \in 0..(Len(t) - 1) : DelimiterChar(t, p) /\ ~InSomePair(t, p)}

\* The 0-based position where the text of node k of res starts.
TextStart(res, k) ==
  NodeStart(res, k) + (CASE MarkOf(res[k]) = "strong" -> 2
                         [] MarkOf(res[k]) = "code" -> 1
                         [] OTHER -> 0)

\* Character p of t is character p of the text of a node of res whose mark
\* is in marks.
KeptIn(res, t, p, marks) ==
  \E k \in 1..Len(res) :
    /\ MarkOf(res[k]) \in marks
    /\ p >= TextStart(res, k) /\ p < TextStart(res, k) + Len(res[k].text)
    /\ res[k].text[p - TextStart(res, k) + 1] = t[p + 1]

NoPair(t) == \A a \in 0..Len(t) : ~PairStartsAt(t, a)

\* C15 as stated: a delimiter with no closing delimiter (or enclosing
\* nothing) makes no marked span, its characters are inside a plain Text
\* node, and a line with no complete pair gives one Text node equal to the
\* line.
C15_Original ==
  pc = "returned" =>
    /\ \A p \in Unmatched(text) :
         /\ p \notin DelimiterPositions(result)
         /\ KeptIn(result, text, p, {"none"})
    /\ NoPair(text) => result = <<TextNode(text)>>

\* C15: a delimiter with no closing delimiter (or enclosing nothing) makes
\* no marked span; its characters are kept unchanged as text, in a plain
\* Text node or in the text of a marked span around them; and a line with
\* no complete pair gives one Text node equal to the line.
C15_UnmatchedKept ==
  pc = "returned" =>
    /\ \A p \in Unmatched(text) :
         /\ p \notin DelimiterPositions(result)
         /\ KeptIn(result, text, p, {"none", "strong", "code"})
    /\ NoPair(text) => result = <<TextNode(text)>>

\* A code span that holds two stars with no closing stars, then a backtick
\* with no closing backtick left as plain text.
C15_Witness ==
  /\ pc = "returned" /\ Len(result) = 2
  /\ MarkOf(result[1]) = "code"
  /\ Len(result[1].text) = 3 /\ 1 \in Unmatched(text) /\ 2 \in Unmatched(text)
  /\ result[2] = TextNode(<<Backtick>>) /\ 5 \in Unmatched(text)

\* ------------------------------------------------- Lambda function claims

\* The key of the event that started task t.
TaskKey(t) == EventKey(t.body, t.body.event)

\* C16 as stated: over any sequence of deliveries, no key starts
\* processEventAsync more than once (a later delivery with the key of an
\* earlier one starts nothing).
C16_Original ==
  \A a, b \in 1..Len(tasks) : a < b => TaskKey(tasks[a]) # TaskKey(tasks[b])

Processing == Ok("Event received, processing...")

\* C17: a call of handler for an event that is not a duplicate and whose
\* text holds 'create a ticket' returns the response 'Event received,
\* processing...' and has then started processEventAsync without waiting
\* for it: the task is at its first await, no call to Jira or Slack made.
\* No later step of a task, whatever the outcome of its calls, changes
\* what handler returned.
C17_ImmediateResponse ==
  [][/\ (lastCall' # <<>> /\ lastCall'[1].isEvent
           /\ ~lastCall'[1].duplicate /\ lastCall'[1].asked)
        => lastCall'[1].response = Processing
     /\ Len(tasks') > Len(tasks)
        => /\ lastCall'[1].response = Processing
           /\ ~lastCall'[1].duplicate /\ lastCall'[1].asked
           /\ tasks'[Len(tasks')].pc = "parent"
           /\ tasks'[Len(tasks')].jira = <<>>
           /\ tasks'[Len(tasks')].reply = <<>>
     /\ (Len(tasks') = Len(tasks) /\ tasks' # tasks) => lastCall' = lastCall
    ]_vars

\* The response was 'Event received, processing...' and afterwards the
\* task failed: the request to Jira was made and the fetch threw.
C17_Witness ==
  /\ lastCall # <<>> /\ lastCall[1].response = Processing
  /\ Len(tasks) = 1 /\ tasks[1].pc = "caught" /\ tasks[1].jira # <<>>

\* The words that ask for a ticket, and the same in capitals.
AskingWords ==
  <<"c", "r", "e", "a", "t", "e", " ", "a", " ", "t", "i", "c", "k", "e", "t">>

AskingWordsUpper ==
  <<"C", "R", "E", "A", "T", "E", " ", "A", " ", "T", "I", "C", "K", "E", "T">>

\* txt holds 'create a ticket', in small or capital letters.
AsksForTicket(txt) ==
  \E o \in 0..(Len(txt) - Len(AskingWords)) :
    \A j \in 1..Len(AskingWords) :
      txt[o + j] \in {AskingWords[j], AskingWordsUpper[j]}

NoOperations == Ok("No operations required")

AlreadyProcessed == Ok("Event already processed")

\* C18 as stated: processEventAsync is started, and so a request made to
\* Jira, only for a delivery whose own text asks for a ticket; a delivery
\* whose text does not is answered 'No operations required'.
C18_Original ==
  /\ \A k \in 1..Len(tasks) :
       AsksForTicket(GetCleanSlackText(tasks[k].body.event))
  /\ (lastCall # <<>> /\ lastCall[1].isEvent /\ ~AsksForTicket(lastCall[1].text))
     => lastCall[1].response = NoOperations

\* C18: processEventAsync is started, and so a request made to Jira, only
\* for a delivery whose own text asks for a ticket; a delivery whose text
\* does not is answered 'No operations required' when its key is new and
\* 'Event already processed' when its key is in the Set, and starts
\* nothing.
C18_OnlyWhenAsked ==
  /\ \A k \in 1..Len(tasks) :
       AsksForTicket(GetCleanSlackText(tasks[k].body.event))
  /\ (lastCall # <<>> /\ lastCall[1].isEvent /\ ~AsksForTicket(lastCall[1].text))
     => lastCall[1].response =
          IF lastCall[1].duplicate THEN AlreadyProcessed ELSE NoOperations

\* A request was made to Jira for an event that asks in capitals, and a
\* later event with a new key that does not ask was answered 'No
\* operations required'.
C18_Witness ==
  /\ Len(tasks) = 1 /\ tasks[1].jira # <<>>
  /\ tasks[1].currentEventText # AskingWords
  /\ lastCall # <<>> /\ lastCall[1].isEvent /\ ~lastCall[1].duplicate
  /\ lastCall[1].response = NoOperations

\* The ticket of task t is built from the text source, and the answer in
\* Slack goes to the thread thread: source is what the title and summary
\* were asked for, the title and the summary are the generated ones or
\* source itself, and the description quotes source.
TicketBuiltFrom(t, source, thread) ==
  /\ t.pc \in {"openai", "jira", "reply", "done"} => t.prompt = source
  /\ t.jira # <<>> =>
       /\ t.jira[1].fields.summary \in {source, <<"T">>}
       /\ t.jira[1].fields.description.content[2].content[1].text
            \in {source, <<"S">>}
       /\ t.jira[1].fields.description.content[4]
            = Paragraph(<<TextNode(source)>>)
  /\ t.reply # <<>> => t.reply[1].thread_ts = thread

\* C19 as stated: for a reply in a thread the ticket is built from the text
\* of the parent message and the answer goes to the thread of the event;
\* for any other event the ticket is built from the text of the event and
\* the answer goes to the event itself.
C19_Original ==
  \A k \in 1..Len(tasks) :
    LET evt == tasks[k].body.event
    IN IF IsThreadReply(evt)
       THEN TicketBuiltFrom(tasks[k], GetCleanSlackText(ParentMessage),
                            evt.thread_ts)
       ELSE TicketBuiltFrom(tasks[k], GetCleanSlackText(evt), evt.ts)

\* C19: for a reply in a thread whose parent message Slack returned, the
\* ticket is built from the text of the parent message; for a reply for
\* which Slack returned no message, and for any other event, it is built
\* from the text of the event.  The answer goes to the thread of the event
\* for a reply and to the event itself otherwise.  A parent message is
\* only there for a reply in a thread.
C19_ParentText ==
  \A k \in 1..Len(tasks) :
    LET evt == tasks[k].body.event
        thread == IF IsThreadReply(evt) THEN evt.thread_ts ELSE evt.ts
    IN /\ tasks[k].parentMessage # <<>> => IsThreadReply(evt)
       /\ IF tasks[k].parentMessage # <<>>
          THEN TicketBuiltFrom(tasks[k],
                               GetCleanSlackText(tasks[k].parentMessage[1]),
                               thread)
          ELSE TicketBuiltFrom(tasks[k], GetCleanSlackText(evt), thread)

\* A reply in a thread: the ticket was built from the text of the parent
\* message and the answer was posted to the thread.
C19_Witness ==
  /\ Len(tasks) = 1 /\ tasks[1].pc = "done"
  /\ IsThreadReply(tasks[1].body.event)
  /\ tasks[1].parentMessage = <<ParentMessage>>
  /\ tasks[1].text = ParentMessage.text
  /\ tasks[1].reply # <<>> /\ tasks[1].reply[1].thread_ts = Ts(0)

\* s without its element at position r.
RemoveAt(s, r) == SubSeq(s, 1, r - 1) \o SubSeq(s, r + 1, Len(s))

\* C20: after every call of handler the Set holds at most 1000 keys; a
\* call that changes the Set adds one key that was not in it, and when the
\* Set was full the key that leaves is the one added earliest among the
\* keys that were in it.
C20_CacheBounded ==
  [][/\ Len(processedEvents') <= MaxProcessedEvents
     /\ processedEvents' # processedEvents =>
          LET added == processedEvents'[Len(processedEvents')]
          IN /\ ~Has(processedEvents, added)
             /\ insertedAt'[Len(insertedAt')] = Insertions + 1
             /\ IF Len(processedEvents) < MaxProcessedEvents
                THEN processedEvents' = Append(processedEvents, added)
                ELSE \E r \in 1..Len(processedEvents) :
                       /\ \A j \in 1..Len(insertedAt) :
                            insertedAt[r] <= insertedAt[j]
                       /\ processedEvents'
                            = Append(RemoveAt(processedEvents, r), added)
    ]_vars

\* The Set is full and the key added first has left it, the keys added
\* after it are still there.
C20_Witness ==
  /\ Len(processedEvents) = MaxProcessedEvents
  /\ insertedAt[1] = 2
  /\ processedEvents[1] = EventKey(EventCallback(QuietEvent(2)), QuietEvent(2))
  /\ ~Has(processedEvents, EventKey(EventCallback(QuietEvent(1)), QuietEvent(1)))

\* ------------------------------------------------ block marker claims

\* The number of '#' characters line k (0-based) starts with.
HashCount(k) == Len(TakeWhile(At(lines, k), {"#"}))

\* Line k (0-based) starts with exactly 2 or 3 '#' characters followed by
\* whitespace, and no CR is left inside it.
StartsHeading(k) ==
  LET line == At(lines, k)
      n == HashCount(k)
  IN /\ n \in {2, 3}
     /\ Len(line) > n /\ line[n + 1] \in {" ", "\t"}
     /\ \A c \in 1..Len(line) : line[c] # CR

\* The positions of the blocks of the document that line k started.
BlocksOf(k) == {j \in 1..Len(origin) : origin[j] = k}

OnlyDashes(k) ==
  LET line == At(lines, k)
  IN Len(line) >= 3 /\ \A c \in 1..Len(line) : line[c] = "-"

\* Line k (0-based) starts with '- ', and no CR is left inside it.
StartsBullet(k) ==
  LET line == At(lines, k)
  IN /\ Len(line) >= 2 /\ line[1] = "-" /\ line[2] = " "
     /\ \A c \in 1..Len(line) : line[c] # CR

\* The first line of the run of bullet lines that ends at bullet line k.
RunStart(k) ==
  CHOOSE a \in 0..k :
    /\ \A j \in a..k : IsListLine(j, "bulletList")
    /\ a = 0 \/ ~IsListLine(a - 1, "bulletList")

\* The list item made of the text t.
ItemOf(t) ==
  [type |-> "listItem",
   content |-> <<[type |-> "paragraph", content |-> ParseInlineFormatting(t)]>>]

ListOf(kind, items) ==
  [type |-> kind,
   content |-> [j \in 1..Len(items) |->
                  [type |-> "listItem",
                   content |-> <<[type |-> "paragraph", content |-> items[j]]>>]]]

\* The list node for the list buffer that holds items.
BufferedList ==
  IF bulletItems # <<>> THEN ListOf("bulletList", bulletItems)
  ELSE ListOf("orderedList", numberedItems)

\* The kinds of line that end an open list and start something else.
ListEnders == {"codeBlock", "heading", "rule", "paragraph"}

\* C23: the step on an opening fence, a heading, a rule or a paragraph
\* line taken while a list buffer holds items adds the buffered list as
\* one list node, then the block of the line (for a fence no block: the
\* code block is open with an empty buffer), and leaves both list buffers
\* empty.
C23_FlushBeforeBlock ==
  [][(/\ pc = "scan" /\ i < Len(lines) /\ ~inCodeBlock
      /\ (bulletItems # <<>> \/ numberedItems # <<>>)
      /\ KindOfLine(i) \in ListEnders)
     => /\ Len(content') >= Len(content) + 1
        /\ SubSeq(content', 1, Len(content) + 1) = Append(content, BufferedList)
        /\ IF KindOfLine(i) = "codeBlock"
           THEN /\ Len(content') = Len(content) + 1
                /\ inCodeBlock' /\ codeBlockContent' = <<>>
           ELSE /\ Len(content') = Len(content) + 2
                /\ content'[Len(content')].type = KindOfLine(i)
        /\ bulletItems' = <<>> /\ numberedItems' = <<>>
        /\ ~inBulletList' /\ ~inNumberedList']_vars

\* A fence was met after two bullet lines: the list of two items is the
\* last block, a code block is open and the list buffers are empty.
C23_Witness ==
  /\ pc = "scan" /\ i = 3 /\ inCodeBlock
  /\ IsFenceLine(2)
  /\ Len(content) = 1
  /\ content[1].type = "bulletList" /\ Len(content[1].content) = 2
  /\ bulletItems = <<>> /\ numberedItems = <<>>

\* The number of list items held by the list nodes of blocks.
RECURSIVE ItemsIn(_)
ItemsIn(blocks) ==
  IF blocks = <<>> THEN 0
  ELSE (IF Head(blocks).type \in ListKinds THEN Len(Head(blocks).content) ELSE 0)
       + ItemsIn(Tail(blocks))

\* The number of bullet and numbered lines met outside a code block among
\* the first n lines.
ListLinesBefore(n) ==
  Cardinality({k \in 0..(n - 1) :
                 OutsideCode(k) /\ KindOfLine(k) \in ListKinds})

\* C24: when the lines are exhausted while a list buffer holds items, the
\* document returned is the blocks emitted so far followed by the list of
\* all the buffered items; and at every point of the scan each list line
\* met so far is an item of an emitted list or of a buffer, so that the
\* document returned holds one item per list line of the input.
C24_NoItemLost ==
  [][/\ (/\ pc = "scan" /\ i >= Len(lines)
         /\ (bulletItems # <<>> \/ numberedItems # <<>>))
        => /\ pc' = "done"
           /\ result'.content = Append(content, BufferedList)
     /\ pc' = "scan"
        => ItemsIn(content') + Len(bulletItems') + Len(numberedItems')
             = ListLinesBefore(i')
     /\ (pc' = "done" /\ ~Falsy(text))
        => ItemsIn(result'.content) = ListLinesBefore(Len(lines'))
    ]_vars

\* The input ended on the second line of a numbered list that follows a
\* paragraph: the list of two items is the last block of the document.
C24_Witness ==
  /\ pc = "done" /\ Len(lines) = 3
  /\ KindOfLine(1) = "orderedList" /\ KindOfLine(2) = "orderedList"
  /\ Len(result.content) = 2
  /\ result.content[1].type = "paragraph"
  /\ result.content[2].type = "orderedList"
  /\ Len(result.content[2].content) = 2

\* ------------------------------------------------- code content claims

\* The index of the first fence line after line a (0-based), the number
\* of lines when there is none.
NextFence(a) ==
  IF \E b \in (a + 1)..(Len(lines) - 1) : IsFenceLine(b)
  THEN CHOOSE b \in (a + 1)..(Len(lines) - 1) :
         IsFenceLine(b) /\ \A j \in (a + 1)..(b - 1) : ~IsFenceLine(j)
  ELSE Len(lines)

\* The input lines a .. b (0-based) as they are.
LinesBetween(a, b) == [j \in 1..(b - a + 1) |-> At(lines, a + j - 1)]

\* C25: while a code block is open its buffer is the input lines after
\* the opening fence, as they are and in order; and the content of every
\* CodeBlock of the document is one text node without marks whose text is
\* the lines between its opening fence and the next fence (or the end of
\* the input) joined by newline, whitespace, blank lines and bold and
\* code delimiters kept as they are.
C25_CodeVerbatim ==
  /\ (pc = "scan" /\ inCodeBlock)
       => codeBlockContent = LinesBetween(codeFrom + 1, i - 1)
  /\ pc = "done" =>
       \A k \in 1..Len(result.content) :
         result.content[k].type = "codeBlock" =>
           /\ IsFenceLine(origin[k]) /\ OutsideCode(origin[k])
           /\ result.content[k].content
                = <<[type |-> "text",
                     text |-> JoinWith(LinesBetween(origin[k] + 1,
                                                    NextFence(origin[k]) - 1),
                                       <<LF>>)]>>

\* A closed js code block holds a line with whitespace around a bold pair
\* and a code pair, then a blank line, as one plain text.
C25_Witness ==
  /\ pc = "done" /\ Len(lines) = 4 /\ IsFenceLine(3)
  /\ Len(result.content) = 1
  /\ result.content[1].type = "codeBlock"
  /\ result.content[1].content
       = <<TextNode(<<" ", "*", "*", "b", "*", "*", " ", Backtick, "c",
                      Backtick, " ", LF>>)>>

\* ------------------------------------------- processEventAsync claims

\* Task t was started by an event_callback delivery whose event has a
\* type that is not app_mention.
NotAMention(t) ==
  /\ t.body.type = "event_callback"
  /\ "type" \in DOMAIN t.body.event
  /\ t.body.event.type # "app_mention"

\* C26: a call of processEventAsync for an event_callback delivery whose
\* event has a type other than app_mention never posts an issue to Jira,
\* never posts a file to Jira and never posts a message to Slack: it ends
\* at the test that follows its first await.
C26_OnlyMentions ==
  \A k \in 1..Len(tasks) :
    NotAMention(tasks[k])
    => /\ tasks[k].jira = <<>>
       /\ tasks[k].uploads = <<>>
       /\ tasks[k].reply = <<>>
       /\ tasks[k].pc \in {"parent", "returned", "caught"}

\* The call for a message event that asks for a ticket and carries a file
\* has returned.
C26_Witness ==
  \E k \in 1..Len(tasks) :
    /\ tasks[k].body.event = SlackEventWithFiles("message", 3, Undefined,
                                                 <<SlackFile(<<"F", "1">>)>>)
    /\ tasks[k].pc = "returned"
    /\ tasks[k].text = CreateATicket

\* The places of a task inside the loop over the files.
FileSteps == {"fileInfo", "download", "buffer", "upload", "uploadBody"}

\* The number of files of the event of task t and of its parent message.
FilesToAttach(t) ==
  Len(Files(t.body.event))
  + (IF t.parentMessage # <<>> THEN Len(Files(t.parentMessage[1])) ELSE 0)

\* Jira answered the issue request of task t with success.
IssueCreated(t) == t.jiraResp # <<>> /\ t.jiraResp[1].ok

\* C27: the steps of processEventAsync are ordered.  A file is posted to
\* Jira, and the message posted to Slack, only once Jira has answered the
\* issue request with success; the message is posted to Slack only once
\* the loop has left every file of the event and of its parent, and no
\* file is posted after it; after a refused or failed issue request no
\* file and no message is ever posted.
C27_StepsOrdered ==
  [][\A k \in 1..Len(tasks') :
       LET t == tasks'[k]
       IN /\ (t.uploads # <<>> \/ t.reply # <<>> \/ t.pc \in FileSteps)
             => IssueCreated(t)
          /\ t.reply # <<>>
             => /\ Len(t.attempts) = FilesToAttach(t)
                /\ t.pc \notin FileSteps
          /\ (k <= Len(tasks) /\ tasks[k].reply # <<>>)
             => /\ t.uploads = tasks[k].uploads
                /\ t.attempts = tasks[k].attempts
          /\ (k <= Len(tasks) /\ tasks[k].pc = "jira" /\ t # tasks[k]
                /\ ~IssueCreated(t))
             => t.pc \in {"returned", "caught"}
          /\ (k <= Len(tasks) /\ tasks[k].pc \in {"returned", "caught"})
             => t = tasks[k]
    ]_vars

\* The call for a mention in a thread whose parent has a file is over: the
\* file of the event was uploaded, the upload of the file of the parent
\* was refused, and the message was posted after both.
C27_Witness ==
  \E k \in 1..Len(tasks) :
    /\ tasks[k].pc = "done"
    /\ FilesToAttach(tasks[k]) = 2
    /\ tasks[k].attempts = <<"uploaded", "refused">>
    /\ Len(tasks[k].uploads) = 2
    /\ tasks[k].reply # <<>>

\* ------------------------------------------------ accumulator claims

\* C28: during the scan at most one buffer is open: the bullet buffer and
\* the numbered buffer are never both non-empty, both are empty while a
\* code block is open, the code buffer is empty while none is open, and
\* each of inBulletList and inNumberedList is true exactly when its buffer
\* is non-empty.
C28_OneBufferOpen ==
  pc = "scan" =>
    /\ ~(bulletItems # <<>> /\ numberedItems # <<>>)
    /\ inCodeBlock => (bulletItems = <<>> /\ numberedItems = <<>>)
    /\ ~inCodeBlock => codeBlockContent = <<>>
    /\ inBulletList <=> bulletItems # <<>>
    /\ inNumberedList <=> numberedItems # <<>>

\* Two numbered lines are buffered after a bullet line: the bullet list
\* was emitted when the first of them was met.
C28_Witness ==
  /\ pc = "scan" /\ i = 3
  /\ inNumberedList /\ Len(numberedItems) = 2
  /\ ~inBulletList /\ bulletItems = <<>>
  /\ Len(content) = 1 /\ content[1].type = "bulletList"

\* ------------------------------------------------- round trip claims

\* An inline node written back as markup: a bold span between two pairs
\* of stars, a code span between two backticks, a Text node as its text.
WriteNode(n) ==
  CASE MarkOf(n) = "strong" -> <<"*", "*">> \o n.text \o <<"*", "*">>
    [] MarkOf(n) = "code" -> <<Backtick>> \o n.text \o <<Backtick>>
    [] OTHER -> n.text

\* The nodes of res written back in order.
RECURSIVE WriteBack(_)
WriteBack(res) ==
  IF res = <<>> THEN <<>> ELSE WriteNode(Head(res)) \o WriteBack(Tail(res))

\* C29: writing the nodes returned by parseInlineFormatting back in
\* order, a bold span with its two pairs of stars and a code span with
\* its two backticks, gives the line that was scanned, character for
\* character.
C29_RoundTrip == pc = "returned" => WriteBack(result) = text

\* A lone star, a code span and a bold span came out of a line of nine
\* characters, and written back they give the line.
C29_Witness ==
  /\ pc = "returned" /\ Len(text) = 9 /\ Len(result) = 3
  /\ result[1] = TextNode(<<"*">>)
  /\ MarkOf(result[2]) = "code"
  /\ MarkOf(result[3]) = "strong"
  /\ WriteBack(result) = text

\* ------------------------------------------------- concurrency claims

\* The deliveries of event for which handler has run.
Handled(event) ==
  {k \in 1..Len(invocations) :
     invocations[k].event = event /\ invocations[k].response # <<>>}

\* Those of them that were not answered as duplicates.
PassedCheck(event) ==
  {k \in Handled(event) : invocations[k].response[1] # AlreadyProcessed}

\* The calls of processEventAsync started for event.
StartedFor(event) ==
  {k \in 1..Len(tasks) : tasks[k].body = event.body}

\* C30: of the deliveries of one event (one event key) that are in flight
\* together, in whatever order handler runs for them and whatever
\* processEventAsync is doing in between, exactly one passes the
\* duplicate check and all the others are answered 'Event already
\* processed'; when the event asks for a ticket that one is answered
\* 'Event received, processing...' and processEventAsync is started once.
C30_OneStarts ==
  \A event \in ConcurrentEvents :
    /\ Cardinality(StartedFor(event)) <= 1
    /\ Handled(event) # {} =>
         /\ Cardinality(PassedCheck(event)) = 1
         /\ IF AsksForTicket(GetCleanSlackText(event.body.event))
            THEN /\ Cardinality(StartedFor(event)) = 1
                 /\ \A k \in PassedCheck(event) :
                      invocations[k].response[1] = Processing
            ELSE StartedFor(event) = {}

\* Two deliveries of the event that asks for a ticket were in flight
\* together: handler ran for the second one first and started
\* processEventAsync, and the first one was answered as a duplicate while
\* processEventAsync was waiting for Jira.
C30_Witness ==
  /\ Len(invocations) >= 2
  /\ invocations[1].event = Delivery(EventCallback(AskingEvent(1)))
  /\ invocations[2].event = invocations[1].event
  /\ invocations[1].response = <<AlreadyProcessed>>
  /\ invocations[2].response = <<Processing>>
  /\ Len(tasks) = 1 /\ tasks[1].pc = "jira"

\* -------------------------------------------------- error handling claims

\* The response of line 491.
InternalServerError ==
  [statusCode |-> 500, body |-> <<"Internal Server Error">>]

\* The deliveries on which handler meets an exception: the body is not
\* JSON, or there is no body to read the event from.
MeetsException(event) == ~event.parses \/ "body" \notin DOMAIN event

\* C31: every call of handler returns a response object, whatever the
\* delivery; the response is the 500 'Internal Server Error' one exactly
\* when handler met an exception, and has status 200 otherwise.  No step
\* of processEventAsync, failed or not, changes a response already
\* returned, and no call of processEventAsync ends rejected.
C31_NeverRejects ==
  [][/\ \A k \in 1..Len(invocations') :
          LET r == invocations'[k].response
          IN /\ Len(r) = 1
             /\ DOMAIN r[1] = {"statusCode", "body"}
             /\ IF MeetsException(invocations'[k].event)
                THEN r[1].statusCode = 500 /\ r[1] = InternalServerError
                ELSE r[1].statusCode = 200
     /\ Len(invocations') >= Len(invocations)
     /\ \A k \in 1..Len(invocations) : invocations'[k] = invocations[k]
     /\ \A k \in 1..Len(tasks') : tasks'[k].pc # "rejected"
     /\ (Len(tasks') = Len(tasks) /\ tasks' # tasks)
        => /\ invocations' = invocations
           /\ lastCall' = lastCall
    ]_vars

\* handler answered 500 to a delivery without body and to one that is not
\* JSON, and 'processing' to an event whose processEventAsync then failed.
C31_Witness ==
  /\ Len(invocations) = 3
  /\ invocations[1].event = Delivery(EventCallback(AskingEvent(1)))
  /\ invocations[1].response = <<Processing>>
  /\ invocations[2].event = NoBody
  /\ invocations[2].response = <<InternalServerError>>
  /\ invocations[3].event = Malformed
  /\ invocations[3].response = <<InternalServerError>>
  /\ Len(tasks) = 1 /\ tasks[1].pc = "caught"

\* The event delivered to follow the loop over the files: a mention with
\* a file, a file without id and another file.
FilesEvents ==
  {Delivery(EventCallback(
     SlackEventWithFiles("app_mention", 1, Undefined,
                         <<SlackFile(<<"F", "1">>), SlackFile(Undefined),
                           SlackFile(<<"F", "2">>)>>)))}

FilesCalled ==
  /\ \E event \in FilesEvents : Handler(event, MaxTasks)
  /\ UNCHANGED invocations
  /\ UNCHANGED <<adfVars, rcaVars>>

NextFiles ==
  \/ FilesCalled
  \/ AttachParentResolved
  \/ PermalinkAnswered
  \/ OpenAIAnswered
  \/ JiraAnswered
  \/ FileInfoAnswered
  \/ DownloadAnswered
  \/ BufferRead
  \/ UploadAnswered
  \/ UploadBodyRead
  \/ ReplyAnswered

SpecFiles == InitHandler /\ [][NextFiles]_vars

\* Every file of task t at the positions from .. to has no id.
NoIdBetween(t, from, to) ==
  \A j \in from..to : t.slackFiles[j].id = Undefined

\* C32: a failure on one file does not stop the loop: every step of a
\* call of processEventAsync that is inside the loop over the files either
\* stays on the same file, or goes on to the next file that has an id
\* (files.info is called for it), or, when no such file is left, posts
\* the message to Slack; it never ends the call.  The files passed over
\* on the way are those without id, and the loop has left every file
\* before the one it is at.
C32_FailuresIsolated ==
  [][\A k \in 1..Len(tasks) :
       LET t == tasks[k]
           n == tasks'[k]
       IN (t.pc \in FileSteps /\ n # t)
          => /\ n.slackFiles = t.slackFiles
             /\ Len(n.attempts) >= Len(t.attempts)
             /\ SubSeq(n.attempts, 1, Len(t.attempts)) = t.attempts
             /\ \/ /\ n.file = t.file /\ n.pc \in FileSteps
                \/ /\ n.file > t.file
                   /\ NoIdBetween(t, t.file + 1, n.file - 1)
                   /\ Len(n.attempts) = n.file - 1
                   /\ \/ /\ n.file <= Len(t.slackFiles)
                         /\ t.slackFiles[n.file].id # Undefined
                         /\ n.pc = "fileInfo"
                         /\ n.reply = <<>>
                      \/ /\ n.file = Len(t.slackFiles) + 1
                         /\ n.pc = "reply"
                         /\ n.reply # <<>>
    ]_vars

\* The first of three files failed on an exception, the second one has no
\* id, the third one was uploaded, and the message was posted to Slack.
C32_Witness ==
  \E k \in 1..Len(tasks) :
    /\ Len(tasks[k].slackFiles) = 3
    /\ tasks[k].attempts = <<"threw", "skipped", "uploaded">>
    /\ Len(tasks[k].uploads) = 1
    /\ tasks[k].uploads[1] = tasks[k].slackFiles[3]
    /\ tasks[k].reply # <<>>
    /\ tasks[k].pc = "done"

(***************************************************************************)
(* performRCA of slack-rca-workflow/src/rca-service.js.  The variable rca  *)
(* holds the locals of the one call: iteration, rcaResult (<<>> for null,  *)
(* <<r>> for an object), messages, toolResults and call, the position of   *)
(* the for-of loop over the tool calls of the last assistant message.  pc  *)
(* is "idle" before the call, "request" while the chat completion is       *)
(* awaited, "tool" while readFile, executeCommand or listDirectory is      *)
(* awaited, then "returned" or "threw".  requests, executed and others are *)
(* history: the number of chat completions asked for, the ids of the tool  *)
(* calls run, and the number of answers that were not the usual one.       *)
(***************************************************************************)

\* Line 11.
MAX_ITERATIONS == 30

\* How many answers of one call may be something else than an assistant
\* message with one read_file call that reads its file.
MaxOtherAnswers == 2

\* The iterations in which they may come: the first one, those on both
\* sides of the test of line 274, and the last one.
OtherIterations == {1, 5, 6, MAX_ITERATIONS}

MayDiffer(s) ==
  s.others < MaxOtherAnswers /\ s.iteration \in OtherIterations

\* JSON text is held as what JSON.parse makes of it.
BadJson == [parses |-> FALSE]

JsonParse(json) ==
  IF json.parses THEN [threw |-> FALSE, value |-> json.value]
  ELSE [threw |-> TRUE]

\* JSON.stringify of an object: the properties whose value is undefined are
\* left out.
JsonStringify(obj) ==
  [parses |-> TRUE,
   value |-> [key \in {f \in DOMAIN obj : obj[f] # Undefined} |-> obj[key]]]

\* obj.key
Get(obj, key) == IF key \in DOMAIN obj THEN obj[key] ELSE Undefined

\* Lines 210-215.
SystemMessage == [role |-> "system", content |-> "systemMessage"]

ToolCallOf(id, name, arguments) ==
  [id |-> id, type |-> "function",
   function |-> [name |-> name, arguments |-> arguments]]

\* The tools that await something outside (lines 111, 120, 133).
IOTools == {"read_file", "exec", "list_directory"}

\* Lines 112-117, 121-130, 134-139, 142-152 and 159-164: the message
\* executeToolCall returns.
ToolMessage(toolCall, json) ==
  [tool_call_id |-> toolCall.id, role |-> "tool",
   name |-> toolCall.function.name, content |-> json]

\* Lines 146-151.
FinishContent(parsedArgs) ==
  JsonStringify([summary |-> Get(parsedArgs, "summary"),
                 root_cause |-> Get(parsedArgs, "root_cause"),
                 recommended_fix |-> Get(parsedArgs, "recommended_fix"),
                 analysis_details |->
                   OrElse(Get(parsedArgs, "analysis_details"), <<>>)])

\* Line 163; the message is a sequence of one piece.
ErrorContent(message) == JsonStringify([error |-> message])

\* Lines 254-261; fullResponse, the four values under their titles, is
\* left out.
FinishResult(finishData) ==
  [summary |-> Get(finishData, "summary"),
   rootCause |-> Get(finishData, "root_cause"),
   recommendedFix |-> Get(finishData, "recommended_fix"),
   details |-> OrElse(Get(finishData, "analysis_details"), <<>>)]

RcaThrow(s, message, detail) ==
  [s EXCEPT !.pc = "threw",
            !.thrown = <<[message |-> message, detail |-> detail]>>]

\* Lines 292-295.
IterationThrew(s, detail) == RcaThrow(s, "RCA investigation failed", detail)

\* The loop ends without a result and the function returns rcaResult.
WhileTestReturnsNull(s) ==
  IF s.iteration < MAX_ITERATIONS /\ s.rcaResult = <<>>
  THEN [s EXCEPT !.iteration = @ + 1, !.requests = @ + 1, !.pc = "request"]
  ELSE [s EXCEPT !.pc = "returned", !.returned = <<s.rcaResult>>]

\* Lines 220-221 and 298-303: the test of the while loop; either the next
\* iteration asks for a chat completion, or the function ends.
WhileTest(s) ==
  IF s.iteration < MAX_ITERATIONS /\ s.rcaResult = <<>>
  THEN [s EXCEPT !.iteration = @ + 1, !.requests = @ + 1, !.pc = "request"]
  ELSE IF s.rcaResult = <<>>
       THEN RcaThrow(s, "RCA investigation incomplete after 30 iterations", "")
       ELSE [s EXCEPT !.pc = "returned", !.returned = <<s.rcaResult>>]

\* The tool calls the for-of loop of line 248 goes through.
ToolCalls(s) == s.messages[Len(s.messages)].tool_calls

\* The result of a finish call is kept only when there is none yet.
CollectFirstFinish(s, toolResult) ==
  LET toolCall == ToolCalls(s)[s.call]
      pushed == [s EXCEPT !.toolResults = Append(@, toolResult),
                          !.executed = Append(@, toolCall.id),
                          !.call = @ + 1]
  IN IF toolCall.function.name = "finish" /\ s.rcaResult = <<>>
     THEN [pushed EXCEPT
             !.rcaResult = <<FinishResult(JsonParse(toolResult.content).value)>>]
     ELSE pushed

\* Lines 249-262: the result of executeToolCall is pushed, and the result
\* of a finish call becomes rcaResult.
Collect(s, toolResult) ==
  LET toolCall == ToolCalls(s)[s.call]
      pushed == [s EXCEPT !.toolResults = Append(@, toolResult),
                          !.executed = Append(@, toolCall.id),
                          !.call = @ + 1]
  IN IF toolCall.function.name = "finish"
     THEN [pushed EXCEPT
             !.rcaResult = <<FinishResult(JsonParse(toolResult.content).value)>>]
     ELSE pushed

\* Only the first tool result joins the conversation.
PushToolResultsFirstOnly(s) ==
  [s EXCEPT !.messages = @ \o SubSeq(s.toolResults, 1, 1)]

\* Line 266.
PushToolResults(s) == [s EXCEPT !.messages = @ \o s.toolResults]

\* Lines 245-266 with executeToolCall (102-166), from the tool call at
\* s.call up to the next await of something outside, or to the end of the
\* iteration.  JSON.parse of line 104 stands before the try of line 108.
RECURSIVE RunToolCalls(_)
RunToolCalls(s) ==
  IF s.call > Len(ToolCalls(s))
  THEN WhileTest(PushToolResults(s))
  ELSE LET toolCall == ToolCalls(s)[s.call]
           parsedArgs == JsonParse(toolCall.function.arguments)
       IN IF parsedArgs.threw
          THEN IterationThrew(s, "JSON.parse")
          ELSE IF toolCall.function.name \in IOTools
          THEN [s EXCEPT !.pc = "tool"]
          ELSE IF toolCall.function.name = "finish"
          THEN RunToolCalls(
                 Collect(s, ToolMessage(toolCall,
                                        FinishContent(parsedArgs.value))))
          ELSE RunToolCalls(
                 Collect(s, ToolMessage(toolCall,
                                        ErrorContent(<<"Unknown tool">>))))

\* The characters \s matches, of those in use.
JsSpace == {" ", "\t", LF, CR}

\* The i flag of lines 277-279, for the letters in use.
Lower(ch) ==
  CASE ch = "S" -> "s" [] ch = "R" -> "r" [] ch = "C" -> "c"
    [] ch = "F" -> "f" [] OTHER -> ch

SummaryTitle ==
  <<"#", "#", " ", "s", "u", "m", "m", "a", "r", "y">>

RootCauseTitle ==
  <<"#", "#", " ", "r", "o", "o", "t", " ", "c", "a", "u", "s", "e">>

RecommendedFixTitle ==
  <<"#", "#", " ", "r", "e", "c", "o", "m", "m", "e", "n", "d", "e", "d",
    " ", "f", "i", "x">>

\* String.prototype.trim
TrimAll(s) ==
  LET front == Len(TakeWhile(s, JsSpace))
      back == CHOOSE n \in 0..Len(s) :
                /\ \A k \in (n + 1)..Len(s) : s[k] \in JsSpace
                /\ (n > 0 => s[n] \notin JsSpace)
  IN IF front = Len(s) THEN <<>> ELSE SubSeq(s, front + 1, back)

\* The title stands at position p of c, whatever the case of the letters.
TitleAt(c, p, title) ==
  /\ p + Len(title) - 1 <= Len(c)
  /\ \A k \in 1..Len(title) : Lower(c[p + k - 1]) = title[k]

\* /title\s*\n([\s\S]*?)(?=##|$)/i at position p: the white space after the
\* title holds a line feed; the group starts after the last one of them and
\* ends before the next "##", or with the string.
SectionAt(c, p, title) ==
  LET after == p + Len(title)
      run == TakeWhile(Drop(c, after - 1), JsSpace)
      feeds == {k \in 1..Len(run) : run[k] = LF}
      from == after + (CHOOSE k \in feeds : \A j \in feeds : j <= k)
      stops == {q \in from..(Len(c) + 1) :
                  \/ q = Len(c) + 1
                  \/ q < Len(c) /\ c[q] = "#" /\ c[q + 1] = "#"}
      to == CHOOSE q \in stops : \A j \in stops : q <= j
  IN IF TitleAt(c, p, title) /\ feeds # {}
     THEN [matched |-> TRUE, group |-> SubSeq(c, from, to - 1)]
     ELSE NoMatch

\* c.match(/title\s*\n([\s\S]*?)(?=##|$)/i): the leftmost match.
SectionMatch(c, title) ==
  LET at == {p \in 1..Len(c) : SectionAt(c, p, title).matched}
  IN IF at = {} THEN NoMatch
     ELSE SectionAt(c, CHOOSE p \in at : \A q \in at : p <= q, title)

\* Lines 267-291: the assistant message has no tool call.
TextAnswer(s, c) ==
  LET summaryMatch == SectionMatch(c, SummaryTitle)
      rootCauseMatch == SectionMatch(c, RootCauseTitle)
      recommendedFixMatch == SectionMatch(c, RecommendedFixTitle)
  IN IF /\ c # Null /\ c # <<>>
        /\ s.iteration > 5
        /\ summaryMatch.matched
        /\ rootCauseMatch.matched
        /\ recommendedFixMatch.matched
     THEN [s EXCEPT !.rcaResult =
             <<[summary |-> TrimAll(summaryMatch.group),
                rootCause |-> TrimAll(rootCauseMatch.group),
                recommendedFix |-> TrimAll(recommendedFixMatch.group),
                details |-> c]>>]
     ELSE s

\* Lines 239-291 after the await of line 239: the assistant message joins
\* the conversation, its tool calls are run, or its text is read, and the
\* loop goes round.  tool_calls is <<>> for a message without the property
\* as for an empty array.
AfterCompletion(s, assistantMessage) ==
  LET pushed == [s EXCEPT !.messages = Append(@, assistantMessage)]
  IN IF Len(assistantMessage.tool_calls) > 0
     THEN RunToolCalls([pushed EXCEPT !.toolResults = <<>>, !.call = 1])
     ELSE WhileTest(TextAnswer(pushed, assistantMessage.content))

\* Lines 170-221: the call.
PerformRCA(s, hasKey) ==
  IF ~hasKey THEN RcaThrow(s, "OPENAI_API_KEY not configured", "")
  ELSE WhileTest([s EXCEPT !.messages = <<SystemMessage>>,
                           !.iteration = 0,
                           !.rcaResult = <<>>])

\* What a tool gives when it works (lines 116, 125-129 and 138).
OkContent(toolCall) ==
  CASE toolCall.function.name = "read_file" ->
         JsonStringify([content |-> <<"x">>,
                        file_path |-> Get(JsonParse(toolCall.function.arguments).value,
                                          "file_path")])
    [] toolCall.function.name = "exec" ->
         JsonStringify([stdout |-> <<"x">>, stderr |-> <<>>,
                        success |-> <<"true">>])
    [] OTHER -> JsonStringify([items |-> <<"x">>])

\* The texts and tool calls of the answers.
Thinking == <<"h", "m">>

Report ==
  <<"#", "#", " ", "S", "u", "m", "m", "a", "r", "y", LF, "A", " ", LF, LF,
    "#", "#", " ", "R", "o", "o", "t", " ", "C", "a", "u", "s", "e", " ",
    LF, LF, "B", LF, "#", "#", " ", "R", "e", "c", "o", "m", "m", "e", "n",
    "d", "e", "d", " ", "F", "i", "x", LF, "C">>

\* A report whose second title is not followed by a line feed.
ReportOnOneLine ==
  <<"#", "#", " ", "S", "u", "m", "m", "a", "r", "y", LF, "A", LF, "#",
    "#", " ", "R", "o", "o", "t", " ", "C", "a", "u", "s", "e", " ", "B",
    LF, "#", "#", " ", "R", "e", "c", "o", "m", "m", "e", "n", "d", "e",
    "d", " ", "F", "i", "x", LF, "C">>

Json(obj) == [parses |-> TRUE, value |-> obj]

FirstReport ==
  Json([summary |-> <<"S", "1">>, root_cause |-> <<"R", "1">>,
        recommended_fix |-> <<"F", "1">>, analysis_details |-> <<"D", "1">>])

SecondReport ==
  Json([summary |-> <<"S", "2">>, root_cause |-> <<"R", "2">>,
        recommended_fix |-> <<"F", "2">>])

AssistantMessage(c, calls) ==
  [role |-> "assistant", content |-> c, tool_calls |-> calls]

ReadCall(id) == ToolCallOf(id, "read_file", Json([file_path |-> <<"a">>]))

\* The usual answer of iteration n: one read_file call.
UsualAnswer(n) == AssistantMessage(Null, <<ReadCall(<<n, 1>>)>>)

\* The other answers of iteration n.
OtherAnswers(n) ==
  {AssistantMessage(Thinking, <<>>),
   AssistantMessage(Report, <<>>),
   AssistantMessage(ReportOnOneLine, <<>>),
   AssistantMessage(Null, <<>>),
   AssistantMessage(Null, <<ToolCallOf(<<n, 1>>, "finish", FirstReport)>>),
   AssistantMessage(Null, <<ToolCallOf(<<n, 1>>, "finish", SecondReport)>>),
   AssistantMessage(Thinking, <<ReadCall(<<n, 1>>),
                                ToolCallOf(<<n, 2>>, "finish", FirstReport)>>),
   AssistantMessage(Null, <<ToolCallOf(<<n, 1>>, "finish", FirstReport),
                            ReadCall(<<n, 2>>)>>),
   AssistantMessage(Null, <<ToolCallOf(<<n, 1>>, "finish", FirstReport),
                            ToolCallOf(<<n, 2>>, "finish", SecondReport)>>),
   AssistantMessage(Null, <<ToolCallOf(<<n, 1>>, "finish", FirstReport),
                            ToolCallOf(<<n, 2>>, "exec", BadJson)>>),
   AssistantMessage(Null, <<ToolCallOf(<<n, 1>>, "search", Json([q |-> <<"a">>])),
                            ToolCallOf(<<n, 2>>, "list_directory",
                                       Json([dir_path |-> <<"a">>]))>>),
   AssistantMessage(Null, <<ToolCallOf(<<n, 1>>, "exec", BadJson)>>)}

\* performRCA is called, with or without OPENAI_API_KEY in the environment.
PerformRCACalled ==
  /\ rca.pc = "idle"
  /\ \E hasKey \in BOOLEAN : rca' = PerformRCA(rca, hasKey)
  /\ UNCHANGED <<adfVars, lambdaVars>>

\* Line 239: the chat completion settles, with a message or an exception.
CompletionAnswered ==
  /\ rca.pc = "request"
  /\ \/ rca' = AfterCompletion(rca, UsualAnswer(rca.iteration))
     \/ /\ MayDiffer(rca)
        /\ \E answer \in OtherAnswers(rca.iteration) :
             rca' = AfterCompletion([rca EXCEPT !.others = @ + 1], answer)
     \/ /\ MayDiffer(rca)
        /\ rca' = IterationThrew([rca EXCEPT !.others = @ + 1], "create")
  /\ UNCHANGED <<adfVars, lambdaVars>>

\* Lines 111, 120 and 133: the tool settles, with its value or an exception
\* that the catch of line 157 turns into a message.
ToolAnswered ==
  /\ rca.pc = "tool"
  /\ \E toolCall \in {ToolCalls(rca)[rca.call]} :
       \/ \E toolResult \in {ToolMessage(toolCall, OkContent(toolCall))} :
            \E collected \in {Collect(rca, toolResult)} :
              rca' = RunToolCalls(collected)
       \/ /\ MayDiffer(rca)
          /\ \E toolResult \in {ToolMessage(toolCall, ErrorContent(<<"ENOENT">>))} :
               \E collected \in {Collect([rca EXCEPT !.others = @ + 1],
                                         toolResult)} :
                 rca' = RunToolCalls(collected)
  /\ UNCHANGED <<adfVars, lambdaVars>>

InitRCA == InitWith(<<>>)

NextRCA == PerformRCACalled \/ CompletionAnswered \/ ToolAnswered

SpecRCA == InitRCA /\ [][NextRCA]_vars

\* Every chat completion and every tool settles.
SpecRCAFair ==
  /\ InitRCA
  /\ [][NextRCA]_vars
  /\ WF_vars(PerformRCACalled)
  /\ WF_vars(CompletionAnswered)
  /\ WF_vars(ToolAnswered)

\* performRCA has ended by returning an object that has a summary, a
\* rootCause and a recommendedFix.
ReturnedResult ==
  /\ rca.pc = "returned"
  /\ rca.returned # <<>>
  /\ rca.returned[1] # <<>>
  /\ {"summary", "rootCause", "recommendedFix"} \subseteq DOMAIN rca.returned[1][1]

RcaEnded == rca.pc \in {"returned", "threw"}

\* The iteration of an ended call threw: its chat completion, or the
\* parsing of the arguments of one of its tool calls.
AnIterationThrew ==
  rca.pc = "threw" /\ rca.thrown[1].detail \in {"create", "JSON.parse"}

\* C33 as stated, without its part on termination: at most 30 chat
\* completions are asked for; a call that has ended has returned an object
\* with summary, rootCause and recommendedFix, or has thrown "RCA
\* investigation incomplete after 30 iterations" (no result was reached) or
\* "RCA investigation failed" (an iteration threw).
C33_Original ==
  /\ rca.requests <= MAX_ITERATIONS
  /\ RcaEnded =>
       \/ ReturnedResult
       \/ /\ rca.pc = "threw"
          /\ rca.thrown[1].message =
               IF AnIterationThrew THEN "RCA investigation failed"
               ELSE "RCA investigation incomplete after 30 iterations"

\* C33: performRCA asks for at most 30 chat completions and never returns
\* null.  When every chat completion and every tool settles, the call
\* ends: without OPENAI_API_KEY it throws "OPENAI_API_KEY not configured"
\* before the first request; otherwise it returns an object with summary,
\* rootCause and recommendedFix, or throws "RCA investigation failed" when an
\* iteration threw, or throws "RCA investigation incomplete after 30
\* iterations" when 30 iterations gave no result.
C33_Bounded ==
  /\ [](/\ rca.requests <= MAX_ITERATIONS
        /\ rca.requests = rca.iteration
        /\ RcaEnded =>
             \/ ReturnedResult
             \/ /\ rca.pc = "threw"
                /\ rca.thrown[1].message =
                     IF rca.requests = 0 THEN "OPENAI_API_KEY not configured"
                     ELSE IF AnIterationThrew THEN "RCA investigation failed"
                     ELSE "RCA investigation incomplete after 30 iterations"
                /\ rca.thrown[1].message =
                     "RCA investigation incomplete after 30 iterations"
                   => rca.requests = MAX_ITERATIONS /\ rca.rcaResult = <<>>)
  /\ (rca.pc = "idle") ~> RcaEnded

\* Thirty iterations gave no result: the thirtieth answer was a text
\* without the three titles, and the call threw.
C33_Witness ==
  /\ rca.pc = "threw"
  /\ rca.requests = MAX_ITERATIONS
  /\ rca.thrown[1].message = "RCA investigation incomplete after 30 iterations"
  /\ rca.messages[Len(rca.messages)].role = "assistant"
  /\ rca.messages[Len(rca.messages)].content = ReportOnOneLine

\* The positions of the assistant messages of the conversation.
AssistantAt == {a \in 1..Len(rca.messages) : rca.messages[a].role = "assistant"}

\* The positions of the finish calls among the tool calls of message a.
FinishCallsOf(a) ==
  {j \in 1..Len(rca.messages[a].tool_calls) :
     rca.messages[a].tool_calls[j].function.name = "finish"}

\* The tool results of the assistant message a have joined the
\* conversation: the message has been processed.
Processed(a) ==
  Len(rca.messages) >= a + Len(rca.messages[a].tool_calls)

\* performRCA has returned an object whose summary, rootCause and
\* recommendedFix are those of the arguments of the tool call.
ReturnedReportOf(toolCall) ==
  LET args == JsonParse(toolCall.function.arguments).value
  IN /\ ReturnedResult
     /\ rca.returned[1][1].summary = Get(args, "summary")
     /\ rca.returned[1][1].rootCause = Get(args, "root_cause")
     /\ rca.returned[1][1].recommendedFix = Get(args, "recommended_fix")

\* Every tool call of the assistant message a has been run, in order, and
\* nothing was run after them.
RanAllCallsOf(a) ==
  LET calls == rca.messages[a].tool_calls
      n == Len(rca.executed)
  IN /\ n >= Len(calls)
     /\ \A j \in 1..Len(calls) : rca.executed[n - Len(calls) + j] = calls[j].id

\* C34 as stated: once an assistant message with a finish call has been
\* processed, no chat completion is asked for any more, performRCA has
\* returned the arguments of that finish call, whichever of the finish
\* calls of the message it is, and the other tool calls of the message have
\* been run.
C34_Original ==
  \A a \in AssistantAt :
    \A j \in FinishCallsOf(a) :
      Processed(a) =>
        /\ rca.requests = Cardinality(AssistantAt)
        /\ a = Len(rca.messages) - Len(rca.messages[a].tool_calls)
        /\ ReturnedReportOf(rca.messages[a].tool_calls[j])
        /\ RanAllCallsOf(a)

\* C34: an assistant message with a finish call is the last one: no chat
\* completion is asked for after it.  Once it has been processed, performRCA
\* has returned an object whose summary, rootCause and recommendedFix are
\* the arguments of the last finish call of the message, and every tool
\* call of the message has been run, in order.  Until then the call is
\* waiting for one of the tools of the message, or the arguments of one of
\* its tool calls did not parse and the call has thrown.
C34_FinishEnds ==
  \A a \in AssistantAt :
    FinishCallsOf(a) # {} =>
      LET calls == rca.messages[a].tool_calls
          last == CHOOSE j \in FinishCallsOf(a) :
                    \A k \in FinishCallsOf(a) : k <= j
      IN /\ rca.requests = Cardinality(AssistantAt)
         /\ \A b \in AssistantAt : b <= a
         /\ IF Processed(a)
            THEN /\ a = Len(rca.messages) - Len(calls)
                 /\ ReturnedReportOf(calls[last])
                 /\ RanAllCallsOf(a)
            ELSE \/ rca.pc = "tool"
                 \/ rca.pc = "threw" /\ rca.thrown[1].detail = "JSON.parse"

\* The answer held a finish call and then a read_file call: the file was
\* read after the finish call, and performRCA returned the first report.
C34_Witness ==
  /\ rca.pc = "returned"
  /\ \E a \in AssistantAt :
       /\ Len(rca.messages[a].tool_calls) = 2
       /\ FinishCallsOf(a) = {1}
       /\ rca.messages[a].tool_calls[2].function.name = "read_file"
       /\ RanAllCallsOf(a)
       /\ rca.returned[1][1].summary = <<"S", "1">>
       /\ rca.messages[Len(rca.messages)].name = "read_file"

\* The tool calls of the assistant message at a are answered: the
\* messages that follow it are the results of its tool calls, one each,
\* in the order of the calls and with their ids, and what comes next, if
\* anything, is an assistant message.
Answered(a) ==
  LET calls == rca.messages[a].tool_calls
  IN /\ Len(rca.messages) >= a + Len(calls)
     /\ \A j \in 1..Len(calls) :
          /\ rca.messages[a + j].role = "tool"
          /\ rca.messages[a + j].tool_call_id = calls[j].id
     /\ Len(rca.messages) > a + Len(calls)
          => rca.messages[a + Len(calls) + 1].role = "assistant"

\* C35: whenever a chat completion is being asked for, the conversation
\* sent starts with the system message, which is the only one, and every
\* assistant message in it that has tool calls is followed at once by one
\* tool message for each of its tool calls, in the order of the calls and
\* with the id of the call, before the next assistant message.
C35_Protocol ==
  rca.pc = "request" =>
    /\ Len(rca.messages) >= 1
    /\ rca.messages[1] = SystemMessage
    /\ \A k \in 2..Len(rca.messages) : rca.messages[k].role # "system"
    /\ Len(rca.messages) = 1 \/ rca.messages[2].role = "assistant"
    /\ \A a \in AssistantAt : Answered(a)

\* A chat completion is asked for after an assistant message with two
\* tool calls and its two tool messages, the first one an error.
C35_Witness ==
  /\ rca.pc = "request"
  /\ \E a \in AssistantAt :
       /\ Len(rca.messages[a].tool_calls) = 2
       /\ Len(rca.messages) = a + 2
       /\ rca.messages[a + 1].tool_call_id = rca.messages[a].tool_calls[1].id
       /\ rca.messages[a + 1].name = "search"
       /\ rca.messages[a + 2].tool_call_id = rca.messages[a].tool_calls[2].id
       /\ rca.messages[a + 2].name = "list_directory"

(***************************************************************************)
(* The first textToADF of the repository (unnamed/part_003, index.mjs):    *)
(* one paragraph for each line.                                            *)
(***************************************************************************)

\* part_003, lines 33-44.
MinimalTextToADF(t) ==
  LET paragraphs == SplitLines(OrElse(t, <<>>))
  IN Doc([k \in 1..Len(paragraphs) |->
            IF Len(paragraphs[k]) = 0 THEN Paragraph(<<>>)
            ELSE Paragraph(<<TextNode(paragraphs[k])>>)])

\* How many lines the texts given to both converters have at most.
MaxPlainLines == 3

\* Lines without any marker, with white space around, with a lone carriage
\* return, with dashes, stars and a backtick that mark nothing, and lines
\* that are a bullet, a bold text, a blank line and a heading.
PlainPool ==
  { <<"x">>,
    <<" ", "x", " ">>,
    <<"a", CR, "b">>,
    <<"-", "-">>,
    <<"a", "*", "*", "b">>,
    <<Backtick, "a">>,
    <<"-", " ", "a">>,
    <<"*", "*", "b", "*", "*">>,
    <<>>,
    <<"#", "#", " ", "T">> }

InitPlain == \E t \in Texts(PlainPool, MaxPlainLines) : InitWith(t)

SpecPlain == InitPlain /\ [][Next]_vars

\* The line, after its leading white space, starts as a block does: with
\* a "#", with "-", "*" or "+" and white space or nothing, with digits and
\* a dot, with three dashes or with three backticks.
HasBlockMarker(line) ==
  LET t == Drop(line, Len(TakeWhile(line, WhitespaceChars)))
      digits == Len(TakeWhile(t, Digits))
  IN /\ Len(t) > 0
     /\ \/ t[1] = "#"
        \/ t[1] \in {"-", "*", "+"} /\ (Len(t) = 1 \/ t[2] \in WhitespaceChars)
        \/ digits > 0 /\ Len(t) > digits /\ t[digits + 1] = "."
        \/ Len(t) >= 3 /\ SubSeq(t, 1, 3) = <<"-", "-", "-">>
        \/ Len(t) >= 3 /\ SubSeq(t, 1, 3) = <<Backtick, Backtick, Backtick>>

\* The line holds two stars, something without a star, and two stars, or
\* a backtick, something without a backtick, and a backtick.
HasDelimiterPair(line) ==
  \E a \in 1..Len(line) :
    \E b \in (a + 1)..Len(line) :
      \/ /\ b + 1 <= Len(line) /\ b >= a + 3
         /\ SubSeq(line, a, a + 1) = <<"*", "*">>
         /\ SubSeq(line, b, b + 1) = <<"*", "*">>
         /\ \A k \in (a + 2)..(b - 1) : line[k] # "*"
      \/ /\ b >= a + 2
         /\ line[a] = Backtick /\ line[b] = Backtick
         /\ \A k \in (a + 1)..(b - 1) : line[k] # Backtick

PlainLine(line) ==
  /\ \E k \in 1..Len(line) : line[k] \notin WhitespaceChars
  /\ ~HasBlockMarker(line)
  /\ ~HasDelimiterPair(line)

\* C36: for a text whose lines are all plain (not blank, no block marker,
\* no pair of bold or code delimiters) textToADF of jira-service.js returns
\* the document that the first textToADF returns: one Paragraph for each
\* line, in order, holding one Text node with the line as it is.
C36_PlainAgree ==
  (/\ pc = "done"
   /\ \A k \in 1..Len(SplitLines(text)) : PlainLine(SplitLines(text)[k]))
  => /\ result = MinimalTextToADF(text)
     /\ result = Doc([k \in 1..Len(SplitLines(text)) |->
                        Paragraph(<<TextNode(SplitLines(text)[k])>>)])

\* Three plain lines, one with white space around it, one with two stars
\* and one of two dashes, gave three paragraphs.
C36_Witness ==
  /\ pc = "done"
  /\ text = <<" ", "x", " ", LF, "a", "*", "*", "b", LF, "-", "-">>
  /\ Len(result.content) = 3
  /\ result.content[1] = Paragraph(<<TextNode(<<" ", "x", " ">>)>>)
  /\ result = MinimalTextToADF(text)

====
